---- MODULE Spec2Model ----
(***************************************************************************)
(* Grid-maintenance strategies of Omnis-Labs/Strategy                      *)
(* (strategies/aster_normal_grid_strategy.py and                           *)
(* strategies/aster_log_grid_strategy.py): the startup plan, the           *)
(* reconciliation loop of __main__ and the exchange's book of resting      *)
(* orders.                                                                 *)
(*                                                                         *)
(* Prices are integers counted in raw units of 0.00001, one decimal place  *)
(* below the price tick (PRICE_PRECISION, 0.0001), so that a price         *)
(* reported by the exchange can carry a digit below the tick.  Quantities  *)
(* are integers counted in lot steps (QUANTITY_PRECISION).  The            *)
(* calculations of the plan are carried out in Decimal arithmetic at the   *)
(* precision of the decimal module's default context.                      *)
(***************************************************************************)
EXTENDS Integers, Sequences, FiniteSets, Bags, TLC

\* ---------------------------------------------------------------- bounds
SubTicks == 2      \* prices the ticker reports per price tick
NumGrids == 2      \* the scaled-down DEFAULT_NUM_GRIDS of both strategies
MaxOrders == 3     \* orders the exchange accepts in one run
UsdtAmount == 100  \* the scaled-down VAULT_USDT_AMOUNT

\* ------------------------------------------------------------- constants
\* Decimal('0.0001'): four decimal places, ten raw units
PriceDecimals == 4
PRICE_PRECISION == 10
QUANTITY_PRECISION == 1
MIN_NOTIONAL_VALUE == 5
DEFAULT_NUM_GRIDS == NumGrids
\* 0.6 in both files, scaled down to one tick
DEFAULT_LOWER_PRICE == PRICE_PRECISION
\* 0.7 in both files, scaled down to a range of a few ticks; the geometric
\* range is the wider one, so that its levels are unevenly spaced
DEFAULT_UPPER_PRICE(m) == IF m = "normal" THEN 3 * PRICE_PRECISION ELSE 4 * PRICE_PRECISION

Modes == {"normal", "log"}
Sides == {"BUY", "SELL"}

\* Python's None, and a value that is not None
None == <<>>
Some(v) == <<v>>
Val(o) == o[1]

\* ------------------------------------------------------- decimal helpers
Max(S) == CHOOSE x \in S : \A y \in S : y <= x

RECURSIVE SortDesc(_)
\* sorted(list(set(...)), reverse=True)
SortDesc(S) == IF S = {} THEN <<>> ELSE <<Max(S)>> \o SortDesc(S \ {Max(S)})

\* Decimal.quantize(PRICE_PRECISION, rounding=ROUND_DOWN) of a price >= 0
QuantizeDown(p) == (p \div PRICE_PRECISION) * PRICE_PRECISION

\* Decimal.quantize(PRICE_PRECISION): the context's default ROUND_HALF_EVEN
QuantizeHalfEven(p) ==
    LET q == p \div PRICE_PRECISION
        r == p % PRICE_PRECISION
    IN  IF 2 * r < PRICE_PRECISION THEN q * PRICE_PRECISION
        ELSE IF 2 * r > PRICE_PRECISION THEN (q + 1) * PRICE_PRECISION
        ELSE IF q % 2 = 0 THEN q * PRICE_PRECISION
        ELSE (q + 1) * PRICE_PRECISION

\* Decimal.quantize(QUANTITY_PRECISION, ROUND_DOWN) of a quantity >= 0
QuantizeQty(q) == (q \div QUANTITY_PRECISION) * QUANTITY_PRECISION

\* ------------------------------------------------- unbounded naturals
\* little-endian sequences of limbs in base LimbBase, without high zero limbs
LimbBase == 1000
LimbDigits == 3

Limb(a, i) == IF i <= Len(a) THEN a[i] ELSE 0

RECURSIVE BTrim(_)
BTrim(a) == IF a = <<>> THEN a
            ELSE IF a[Len(a)] = 0 THEN BTrim(SubSeq(a, 1, Len(a) - 1))
            ELSE a

RECURSIVE BFromInt(_)
BFromInt(n) == IF n = 0 THEN <<>> ELSE <<n % LimbBase>> \o BFromInt(n \div LimbBase)

RECURSIVE BToInt(_)
BToInt(a) == IF a = <<>> THEN 0 ELSE a[1] + LimbBase * BToInt(Tail(a))

RECURSIVE BAddC(_, _, _, _)
BAddC(a, b, i, c) ==
    IF i > Len(a) /\ i > Len(b) THEN (IF c = 0 THEN <<>> ELSE <<c>>)
    ELSE LET s == Limb(a, i) + Limb(b, i) + c
         IN  <<s % LimbBase>> \o BAddC(a, b, i + 1, s \div LimbBase)

BAdd(a, b) == BAddC(a, b, 1, 0)

RECURSIVE BSubC(_, _, _, _)
BSubC(a, b, i, c) ==
    IF i > Len(a) THEN <<>>
    ELSE LET s == a[i] - Limb(b, i) - c
         IN  IF s < 0 THEN <<s + LimbBase>> \o BSubC(a, b, i + 1, 1)
             ELSE <<s>> \o BSubC(a, b, i + 1, 0)

\* a - b for a >= b
BSub(a, b) == BTrim(BSubC(a, b, 1, 0))

RECURSIVE BCmpAt(_, _, _)
BCmpAt(a, b, i) ==
    IF i = 0 THEN 0
    ELSE IF a[i] < b[i] THEN -1
    ELSE IF a[i] > b[i] THEN 1
    ELSE BCmpAt(a, b, i - 1)

\* -1, 0, 1 as a < b, a = b, a > b
BCmp(a, b) ==
    IF Len(a) < Len(b) THEN -1
    ELSE IF Len(a) > Len(b) THEN 1
    ELSE BCmpAt(a, b, Len(a))

RECURSIVE BMulSmallC(_, _, _, _)
BMulSmallC(a, k, i, c) ==
    IF i > Len(a) THEN BFromInt(c)
    ELSE LET s == a[i] * k + c
         IN  <<s % LimbBase>> \o BMulSmallC(a, k, i + 1, s \div LimbBase)

\* a * k for 0 <= k < 2000000
BMulSmall(a, k) == IF k = 0 THEN <<>> ELSE BMulSmallC(a, k, 1, 0)

RECURSIVE BColumn(_, _, _, _)
\* the sum of a[i] * b[k + 1 - i] over the limbs i..hi of a
BColumn(a, b, k, i) ==
    IF i > Len(a) \/ i > k THEN 0
    ELSE a[i] * b[k + 1 - i] + BColumn(a, b, k, i + 1)

RECURSIVE BCarry(_, _, _)
\* the limbs of the number whose columns are cols, from column i on
BCarry(cols, i, c) ==
    IF i > Len(cols) THEN BFromInt(c)
    ELSE LET s == cols[i] + c
         IN  <<s % LimbBase>> \o BCarry(cols, i + 1, s \div LimbBase)

\* schoolbook product: column sums, then one pass of carries
BMul(a, b) ==
    IF a = <<>> \/ b = <<>> THEN <<>>
    ELSE LET cols == [k \in 1..(Len(a) + Len(b) - 1) |->
                         BColumn(a, b, k, IF k > Len(b) THEN k + 1 - Len(b) ELSE 1)]
         IN  BTrim(BCarry(cols, 1, 0))

RECURSIVE BPow(_, _)
BPow(a, n) == IF n = 0 THEN <<1>>
              ELSE IF n = 1 THEN a
              ELSE IF n % 2 = 0 THEN LET h == BPow(a, n \div 2) IN BMul(h, h)
              ELSE BMul(a, BPow(a, n - 1))

RECURSIVE BDivSmallAt(_, _, _, _)
\* quotient limbs 1..i and the remainder, the limbs above i having left rem
BDivSmallAt(a, k, i, rem) ==
    IF i = 0 THEN [q |-> <<>>, r |-> rem]
    ELSE LET cur == rem * LimbBase + a[i]
             low == BDivSmallAt(a, k, i - 1, cur % k)
         IN  IF cur < k THEN [q |-> Append(low.q, 0), r |-> low.r]
             ELSE [q |-> Append(low.q, cur \div k), r |-> low.r]

\* a divided by k, 0 < k < 2000000: quotient q and remainder r
BDivSmall(a, k) ==
    LET d == BDivSmallAt(a, k, Len(a), 0) IN [q |-> BTrim(d.q), r |-> d.r]

RECURSIVE IntPow10(_)
IntPow10(k) == IF k = 0 THEN 1 ELSE 10 * IntPow10(k - 1)

RECURSIVE IntDigits(_)
IntDigits(n) == IF n = 0 THEN 0 ELSE 1 + IntDigits(n \div 10)

\* number of decimal digits of a (0 for zero)
BDigits(a) == IF a = <<>> THEN 0
              ELSE LimbDigits * (Len(a) - 1) + IntDigits(a[Len(a)])

Zeros(n) == [i \in 1..n |-> 0]

\* a * 10^k
BShift(a, k) ==
    IF a = <<>> THEN <<>>
    ELSE Zeros(k \div LimbDigits) \o BMulSmall(a, IntPow10(k % LimbDigits))

BPow10(k) == BShift(<<1>>, k)

\* floor(a / 10^k)
BUnshift(a, k) ==
    IF k \div LimbDigits >= Len(a) THEN <<>>
    ELSE BDivSmall(SubSeq(a, k \div LimbDigits + 1, Len(a)), IntPow10(k % LimbDigits)).q

RECURSIVE LimbSearch(_, _, _, _, _)
\* the largest limb d in lo..hi with (base + d)^n <= x
LimbSearch(base, n, x, lo, hi) ==
    IF lo = hi THEN lo
    ELSE LET mid == (lo + hi + 1) \div 2
         IN  IF BCmp(BPow(BAdd(base, <<mid>>), n), x) <= 0
             THEN LimbSearch(base, n, x, mid, hi)
             ELSE LimbSearch(base, n, x, lo, mid - 1)

RECURSIVE BRootAt(_, _, _, _, _)
\* r is the floor root of the k - 1 leading groups of n limbs of x; each
\* step takes in one more group and finds one more limb of the root
BRootAt(x, n, groups, k, r) ==
    IF k > groups THEN r
    ELSE LET xk == SubSeq(x, n * (groups - k) + 1, Len(x))
             base == IF r = <<>> THEN <<>> ELSE <<0>> \o r
             d == LimbSearch(base, n, xk, 0, LimbBase - 1)
             next == IF d = 0 THEN base ELSE IF base = <<>> THEN <<d>> ELSE <<d>> \o r
         IN  IF next = <<>> THEN BRootAt(x, n, groups, k + 1, <<>>)
             ELSE BRootAt(x, n, groups, k + 1, next)

\* floor of the n-th root of x
BRoot(x, n) == BRootAt(x, n, (Len(x) + n - 1) \div n, 1, <<>>)

\* ------------------------------------------------------ decimal.Decimal
\* a finite Decimal: (-1)^neg * coef * 10^exp, kept without trailing zeros;
\* every operation rounds its exact result to the context precision,
\* ROUND_HALF_EVEN (the default context of the decimal module)
DecimalPrec == 28

Dec(neg, coef, exp) == [neg |-> neg, coef |-> coef, exp |-> exp]

DecZero == Dec(FALSE, <<>>, 0)

RECURSIVE DecStrip(_, _)
DecStrip(coef, exp) ==
    IF coef[1] = 0 THEN DecStrip(Tail(coef), exp + LimbDigits)
    ELSE IF coef[1] % 10 = 0 THEN DecStrip(BDivSmall(coef, 10).q, exp + 1)
    ELSE [coef |-> coef, exp |-> exp]

DecNorm(d) ==
    IF d.coef = <<>> THEN DecZero
    ELSE LET s == DecStrip(d.coef, d.exp) IN Dec(d.neg, s.coef, s.exp)

\* the coefficient coef (of exponent exp) cut to DecimalPrec digits; sticky
\* says that the exact value lies strictly above coef * 10^exp
DecRoundCoef(coef, exp, sticky) ==
    LET n == BDigits(coef)
    IN  IF n <= DecimalPrec THEN [coef |-> coef, exp |-> exp]
        ELSE LET k == n - DecimalPrec
                 q == BUnshift(coef, k)
                 rem == BSub(coef, BShift(q, k))
                 half == BCmp(BMulSmall(rem, 2), BPow10(k))
                 up == half > 0 \/ (half = 0 /\ (sticky \/ q[1] % 2 = 1))
             IN  [coef |-> IF up THEN BAdd(q, <<1>>) ELSE q, exp |-> exp + k]

DecRound(neg, coef, exp, sticky) ==
    LET r == DecRoundCoef(coef, exp, sticky) IN DecNorm(Dec(neg, r.coef, r.exp))

DecOfInt(n) == DecNorm(Dec(n < 0, BFromInt(IF n < 0 THEN -n ELSE n), 0))

DecNeg(a) == IF a.coef = <<>> THEN a ELSE Dec(~a.neg, a.coef, a.exp)

Min(x, y) == IF x <= y THEN x ELSE y

\* the coefficient of a at the exponent e <= a.exp
DecAlign(a, e) == BShift(a.coef, a.exp - e)

\* -1, 0, 1 as a < b, a = b, a > b
DecCmp(a, b) ==
    IF a.neg # b.neg THEN (IF a.neg THEN -1 ELSE 1)
    ELSE LET e == Min(a.exp, b.exp)
             m == BCmp(DecAlign(a, e), DecAlign(b, e))
         IN  IF a.neg THEN -m ELSE m

DecAdd(a, b) ==
    LET e == Min(a.exp, b.exp)
        ca == DecAlign(a, e)
        cb == DecAlign(b, e)
    IN  IF a.neg = b.neg THEN DecRound(a.neg, BAdd(ca, cb), e, FALSE)
        ELSE IF BCmp(ca, cb) >= 0 THEN DecRound(a.neg, BSub(ca, cb), e, FALSE)
        ELSE DecRound(b.neg, BSub(cb, ca), e, FALSE)

DecSub(a, b) == DecAdd(a, DecNeg(b))

DecMul(a, b) == DecRound(a.neg # b.neg, BMul(a.coef, b.coef), a.exp + b.exp, FALSE)

\* a / b for b # 0 with a coefficient below 2000000
DecDiv(a, b) ==
    IF a.coef = <<>> THEN DecZero
    ELSE LET k == DecimalPrec + 1 + BDigits(b.coef)
             d == BDivSmall(BShift(a.coef, k), BToInt(b.coef))
         IN  DecRound(a.neg # b.neg, d.q, a.exp - b.exp - k, d.r # 0)

\* floor(|a| * 10^places) as an integer: the digits quantize(ROUND_DOWN) keeps
DecTruncate(a, places) ==
    BToInt(IF a.exp + places >= 0 THEN BShift(a.coef, a.exp + places)
           ELSE BUnshift(a.coef, -(a.exp + places)))

\* ---------------------------------------------------- Decimal.__pow__
\* x ** y for x > 1 and y = Decimal(1) / Decimal(n): libmpdec returns the
\* correctly rounded power of the rounded exponent y.  With t the exact n-th
\* root of x and 1/n - y = d / (n * 10^k), the power is t * exp(-ln(x) * d /
\* (n * 10^k)); it is bracketed with an integer bound on ln(x), and every
\* Decimal the rounding of a real in the bracket can give is a candidate.
RootGuard == 7

\* an integer upper bound on ln(x): ln(10) < 3 for each integer digit of x
LnBound(x) == 3 * (IF BDigits(x.coef) + x.exp > 1 THEN BDigits(x.coef) + x.exp ELSE 1)

\* the scale s: x * 10^(n * s) is an integer of n * (prec + guard) digits at least
RootScale(x, n) ==
    IF n * (DecimalPrec + RootGuard) - (BDigits(x.coef) + x.exp) > 0
       /\ x.exp + n * ((n * (DecimalPrec + RootGuard) - (BDigits(x.coef) + x.exp) + n - 1) \div n) >= 0
    THEN (n * (DecimalPrec + RootGuard) - (BDigits(x.coef) + x.exp) + n - 1) \div n
    ELSE IF x.exp >= 0 THEN 0
    ELSE (-x.exp + n - 1) \div n

\* |t * ln(x) * d / (n * 10^k)| at the scale of v, rounded up, for 1/n - y =
\* d / (n * 10^k); the factor f = 2 covers y > 1/n, as exp(z) <= 1 + 2z
RootError(x, n, v, f, d, k) ==
    BAdd(BUnshift(BDivSmall(BMulSmall(BMulSmall(v, f * LnBound(x)), d), n).q, k), <<1>>)

\* the Decimals from lo to hi, both of DecimalPrec digits
DecRange(lo, hi) ==
    { DecRound(FALSE, BAdd(lo.coef, BFromInt(j)), lo.exp, FALSE) :
        j \in 0..BToInt(BSub(BShift(hi.coef, hi.exp - lo.exp), lo.coef)) }

\* r is the floor root of x * 10^(n * s); sgn is the sign of 1/n - y and d
\* the magnitude of 10^k - n * y * 10^k
RootCandidates(x, n, s, r, exact, sgn, d, k) ==
    IF sgn = 0 THEN { DecRound(FALSE, r, -s, ~exact) }
    ELSE IF sgn > 0
    THEN DecRange(DecRoundCoef(BSub(r, RootError(x, n, r, 1, d, k)), -s, FALSE),
                  DecRoundCoef(r, -s, ~exact))
    ELSE DecRange(DecRoundCoef(r, -s, ~exact),
                  DecRoundCoef(BAdd(BAdd(r, <<1>>),
                                    RootError(x, n, BAdd(r, <<1>>), 2, d, k)), -s, FALSE))

RootOfScaled(x, n, s, X, r, one, ny, k) ==
    RootCandidates(x, n, s, r, BCmp(BPow(r, n), X) = 0, BCmp(one, ny),
                   IF BCmp(one, ny) >= 0 THEN BToInt(BSub(one, ny))
                   ELSE BToInt(BSub(ny, one)), k)

RootAtScale(x, n, s, X, y) ==
    RootOfScaled(x, n, s, X, BRoot(X, n), BPow10(-y.exp), BMulSmall(y.coef, n), -y.exp)

DecPowRootOf(x, n, s) ==
    RootAtScale(x, n, s, BShift(x.coef, x.exp + n * s), DecDiv(DecOfInt(1), DecOfInt(n)))

\* the values x ** (Decimal(1) / Decimal(n)) can take
DecPowRoot(x, n) == DecPowRootOf(x, n, RootScale(x, n))

\* ----------------------------------------------- prices as Decimals
\* the Decimal of a price counted in raw units
DecOfRaw(p) == DecNorm(Dec(p < 0, BFromInt(IF p < 0 THEN -p ELSE p), -(PriceDecimals + 1)))

\* mutant: the level goes to the nearest tick, half a tick and more upwards
FormatLevel_Nearest(lvl) ==
    (IF lvl.neg THEN -1 ELSE 1)
        * DecTruncate(DecAdd(Dec(FALSE, lvl.coef, lvl.exp), DecOfRaw(PRICE_PRECISION \div 2)),
                      PriceDecimals) * PRICE_PRECISION

\* lvl.quantize(PRICE_PRECISION, rounding=ROUND_DOWN), in raw units: the
\* digits below the tick are cut off
FormatLevel(lvl) ==
    (IF lvl.neg THEN -1 ELSE 1) * DecTruncate(lvl, PriceDecimals) * PRICE_PRECISION

\* ------------------------------------------------ decimal.Decimal(str)
\* a string is a sequence of characters
DigitChars == <<"0", "1", "2", "3", "4", "5", "6", "7", "8", "9">>
DigitVal(c) == (CHOOSE d \in 1..10 : DigitChars[d] = c) - 1
IsDigit(c) == \E d \in 1..10 : DigitChars[d] = c

RECURSIVE IntChars(_)
\* str(n) for n >= 0
IntChars(n) ==
    IF n < 10 THEN <<DigitChars[n + 1]>>
    ELSE IntChars(n \div 10) \o <<DigitChars[(n % 10) + 1]>>

RECURSIVE DigitsCoef(_, _)
\* the coefficient the digits of body spell, the point left out
DigitsCoef(body, acc) ==
    IF body = <<>> THEN acc
    ELSE IF body[1] = "." THEN DigitsCoef(Tail(body), acc)
    ELSE DigitsCoef(Tail(body), BAdd(BMulSmall(acc, 10), BFromInt(DigitVal(body[1]))))

\* decimal.Decimal(string) for strings of an optional sign, digits and at
\* most one point; anything else raises InvalidOperation (None)
ParseDecimal(str) ==
    LET neg == str # <<>> /\ str[1] = "-"
        body == IF str # <<>> /\ str[1] \in {"-", "+"} THEN Tail(str) ELSE str
        points == { i \in 1..Len(body) : body[i] = "." }
        digits == { i \in 1..Len(body) : IsDigit(body[i]) }
        frac == IF points = {} THEN 0 ELSE Len(body) - (CHOOSE i \in points : TRUE)
    IN  IF digits = {} \/ Cardinality(points) > 1
           \/ digits \cup points # 1..Len(body)
        THEN None
        ELSE Some(DecNorm(Dec(neg, BTrim(DigitsCoef(body, <<>>)), -frac)))

\* ------------------------------------------------------ grid calculation
\* the guard of both calculate_grid_levels: parameters that return []
InvalidGridParameters(m, upper_price, lower_price, num_grids) ==
    \/ upper_price <= lower_price
    \/ num_grids < 1
    \/ m = "log" /\ lower_price <= 0

\* grid_step = (upper_price - lower_price) / Decimal(str(num_grids))
grid_step(upper_price, lower_price, num_grids) ==
    DecDiv(DecSub(DecOfRaw(upper_price), DecOfRaw(lower_price)), DecOfInt(num_grids))

\* levels = [lower_price + i * grid_step for i in range(num_grids + 1)]
NormalLevels(upper_price, lower_price, num_grids) ==
    [j \in 1..(num_grids + 1) |->
        DecAdd(DecOfRaw(lower_price),
               DecMul(DecOfInt(j - 1), grid_step(upper_price, lower_price, num_grids)))]

\* mutant: the ratio of a linear interpolation, 1 + (upper / lower - 1) / num_grids
LogRatios_Linear(upper_price, lower_price, num_grids) ==
    { DecAdd(DecOfInt(1),
             DecDiv(DecSub(DecDiv(DecOfRaw(upper_price), DecOfRaw(lower_price)), DecOfInt(1)),
                    DecOfInt(num_grids))) }

\* the values (upper_price / lower_price) ** (Decimal(1) / Decimal(str(num_grids)))
\* can take
LogRatios(upper_price, lower_price, num_grids) ==
    DecPowRoot(DecDiv(DecOfRaw(upper_price), DecOfRaw(lower_price)), num_grids)

RECURSIVE LogLevelsFrom(_, _, _)
\* lvls.append(cur); cur *= ratio, for the remaining steps
LogLevelsFrom(cur, rt, steps) ==
    IF steps = 0 THEN <<cur>>
    ELSE IF cur.coef = <<>> THEN <<cur>> \o LogLevelsFrom(cur, rt, steps - 1)
    ELSE <<cur>> \o LogLevelsFrom(DecMul(cur, rt), rt, steps - 1)

LogLevels(lower_price, num_grids, rt) ==
    LogLevelsFrom(DecOfRaw(lower_price), rt, num_grids)

\* the unquantized levels of either calculation
Levels(m, upper_price, lower_price, num_grids, rt) ==
    IF m = "normal" THEN NormalLevels(upper_price, lower_price, num_grids)
    ELSE LogLevels(lower_price, num_grids, rt)

\* formatted_levels / fmt_lvls as a set, in raw units
FormattedLevels(levels) == { FormatLevel(levels[j]) : j \in 1..Len(levels) }

RECURSIVE LogUnique(_, _, _)
\* the tolerance pass over temp_sorted (tol = PRICE_PRECISION / 2)
LogUnique(temp_sorted, lower_price, i) ==
    IF i > Len(temp_sorted) THEN <<>>
    ELSE LET keep == /\ 2 * (temp_sorted[i - 1] - temp_sorted[i]) > PRICE_PRECISION
                     /\ 2 * temp_sorted[i] >= 2 * QuantizeDown(lower_price) - PRICE_PRECISION
         IN  (IF keep THEN <<temp_sorted[i]>> ELSE <<>>)
                 \o LogUnique(temp_sorted, lower_price, i + 1)

\* quantization, deduplication and the descending sort of the arithmetic grid
UniqueSortedNormal(levels) == SortDesc(FormattedLevels(levels))

\* quantization, deduplication and the descending sort of the geometric grid
UniqueSortedLog(levels, lower_price) ==
    LET temp_sorted == SortDesc(FormattedLevels(levels))
        unique == IF temp_sorted = <<>> THEN <<>>
                  ELSE <<temp_sorted[1]>> \o LogUnique(temp_sorted, lower_price, 2)
    IN  SortDesc({ unique[j] : j \in 1..Len(unique) })

UniqueSorted(m, levels, lower_price) ==
    IF m = "normal" THEN UniqueSortedNormal(levels) ELSE UniqueSortedLog(levels, lower_price)

calculate_grid_levels_normal(upper_price, lower_price, num_grids) ==
    IF InvalidGridParameters("normal", upper_price, lower_price, num_grids) THEN <<>>
    ELSE UniqueSortedNormal(NormalLevels(upper_price, lower_price, num_grids))

\* rt is the ratio, the value the power took
calculate_grid_levels_log(upper_price, lower_price, num_grids, rt) ==
    IF InvalidGridParameters("log", upper_price, lower_price, num_grids) THEN <<>>
    ELSE IF DecCmp(rt, DecOfInt(1)) <= 0 THEN <<>>
    ELSE UniqueSortedLog(LogLevels(lower_price, num_grids, rt), lower_price)

calculate_grid_levels(m, upper_price, lower_price, num_grids, rt) ==
    IF m = "normal" THEN calculate_grid_levels_normal(upper_price, lower_price, num_grids)
    ELSE calculate_grid_levels_log(upper_price, lower_price, num_grids, rt)

\* the ratios the calculation can work with (the arithmetic grid has none)
Ratios(m, upper_price, lower_price, num_grids) ==
    IF m = "normal" \/ InvalidGridParameters(m, upper_price, lower_price, num_grids)
    THEN {DecOfInt(1)}
    ELSE LogRatios(upper_price, lower_price, num_grids)

\* ---------------------------------------------------------------- sizing
\* avg_price = (lower_p + upper_p) / 2
avg_price(upper_p, lower_p) ==
    DecDiv(DecAdd(DecOfRaw(lower_p), DecOfRaw(upper_p)), DecOfInt(2))

\* mutant: the estimate is rounded up to the next lot step
calculated_order_qty_RoundUp(usdt, upper_p, lower_p, num_g) ==
    LET estimated_qty_per_grid ==
            DecDiv(DecDiv(usdt, DecOfInt(num_g)), avg_price(upper_p, lower_p))
    IN  QuantizeQty((IF estimated_qty_per_grid.neg THEN -1 ELSE 1)
                        * (DecTruncate(estimated_qty_per_grid, 0) + 1))

\* estimated_qty_per_grid = (USDT_AMOUNT / Decimal(num_g)) / avg_price,
\* rounded down to the lot step
calculated_order_qty(usdt, upper_p, lower_p, num_g) ==
    LET estimated_qty_per_grid ==
            DecDiv(DecDiv(usdt, DecOfInt(num_g)), avg_price(upper_p, lower_p))
    IN  QuantizeQty((IF estimated_qty_per_grid.neg THEN -1 ELSE 1)
                        * DecTruncate(estimated_qty_per_grid, 0))

\* mutant: the minimum notional is not checked
SizingOk_NoNotional(usdt, upper_p, lower_p, num_g) ==
    /\ DecCmp(avg_price(upper_p, lower_p), DecZero) > 0 /\ num_g > 0
    /\ calculated_order_qty(usdt, upper_p, lower_p, num_g) > 0

\* the two exits of the sizing block of __main__
SizingOk(usdt, upper_p, lower_p, num_g) ==
    /\ DecCmp(avg_price(upper_p, lower_p), DecZero) > 0 /\ num_g > 0
    /\ calculated_order_qty(usdt, upper_p, lower_p, num_g) > 0
    /\ DecCmp(DecMul(DecOfInt(calculated_order_qty(usdt, upper_p, lower_p, num_g)),
                     DecOfRaw(lower_p)),
              DecOfInt(MIN_NOTIONAL_VALUE)) >= 0

\* `not value` for a value read from the environment: None or ''
Missing(value) == value = None \/ Val(value) = <<>>

\* mutant: the symbol is not validated
ParametersValid_NoSymbol(api_key, secret_key, symbol, amount_str) ==
    /\ ~Missing(api_key) /\ ~Missing(secret_key)
    /\ ~Missing(amount_str)
    /\ ParseDecimal(Val(amount_str)) # None
    /\ DecCmp(Val(ParseDecimal(Val(amount_str))), DecZero) > 0

\* the module-level validation passes: no sys.exit(1)
ParametersValid(api_key, secret_key, symbol, amount_str) ==
    /\ ~Missing(api_key) /\ ~Missing(secret_key)
    /\ ~Missing(symbol)
    /\ ~Missing(amount_str)
    /\ ParseDecimal(Val(amount_str)) # None
    /\ DecCmp(Val(ParseDecimal(Val(amount_str))), DecZero) > 0

\* the volume strategy: ORDER_QUANTITY = (USDT_AMOUNT / current_price)
\* rounded down to the lot step
volume_order_quantity(usdt, price) ==
    QuantizeQty(DecTruncate(DecDiv(usdt, DecOfRaw(price)), 0))

\* the two sanity checks of the volume strategy
VolumeSizingOk(usdt, price) ==
    /\ volume_order_quantity(usdt, price) > 0
    /\ DecCmp(DecMul(DecOfInt(volume_order_quantity(usdt, price)), DecOfRaw(price)),
              DecOfInt(MIN_NOTIONAL_VALUE)) >= 0

\* the checks of __main__ before the loop is entered
StartupOk(m, usdt) ==
    LET upper_p == DEFAULT_UPPER_PRICE(m)
        lower_p == DEFAULT_LOWER_PRICE
        num_g == DEFAULT_NUM_GRIDS
    IN  /\ DecCmp(usdt, DecZero) > 0
        /\ SizingOk(usdt, upper_p, lower_p, num_g)
        /\ \E r \in Ratios(m, upper_p, lower_p, num_g) :
               calculate_grid_levels(m, upper_p, lower_p, num_g, r) # <<>>

\* ----------------------------------------------------------------- state
VARIABLES
    mode,                     \* which strategy file runs: "normal" or "log"
    API_KEY,                  \* the module globals read from the environment
    SECRET_KEY,
    TARGET_SYMBOL,
    USDT_AMOUNT_STR,
    USDT_AMOUNT,              \* Decimal(USDT_AMOUNT_STR), once validated
    upper_p,                  \* the grid parameters __main__ works with
    lower_p,
    num_g,
    ratio,                    \* the geometric grid's ratio, as the power returned it
    lvls,                     \* calculate_grid_levels' levels before quantization
    grid_levels,              \* the plan: calculate_grid_levels' result
    ORDER_QTY_PER_GRID,       \* the plan quantity
    exit_code,                \* the status of sys.exit, once called
    pc,                       \* position of __main__
    current_price,            \* get_current_price's result of this tick
    open_orders_list,         \* get_open_orders' result of this tick: the records
    open_order_prices,        \* this tick's snapshot: side -> set of prices
    idx,                      \* position of the for loop in grid_levels
    placed_orders_this_cycle,
    book,                     \* the exchange: bag of resting orders
    order_count,              \* orders the exchange has accepted
    submitted,                \* history: place_limit_order calls of this tick
    fetch_state,              \* history: this tick's get_open_orders outcome
    tick_state,               \* history: how the latest tick went
    sleeps,                   \* history: check-interval sleeps since the tick began
    interrupted,              \* history: a KeyboardInterrupt was delivered
    last_complete,            \* history: price and covered levels of the previous
                              \* tick, when it completed with all orders accepted
    ITERATIONS_STR,           \* the volume strategy: VAULT_ITERATIONS
    ITERATIONS,               \* the cycles to run, None for a run without limit
    current_cycle,            \* the cycle counter of the volume strategy's loop
    buy_filled,               \* the cycle's BUY was seen FILLED
    polled,                   \* history: the answers the poll of the cycle's BUY got
    totals,                   \* history: market orders of the run, by kind
    call,                     \* the signed client: the function called and its arguments
    wire,                     \* history: the requests of the call and their answers
    result,                   \* what the call returned or raised, once it has ended
    running_strategies,       \* app.py: wallet address -> the tracked process
    processes,                \* the operating system: process -> its state
    threads,                  \* app.py: the request handlers at work
    responses,                \* history: the responses of the finished handlers
    USER_DATA_FILE,           \* app.py: the rows of the CSV file, wallet -> keys
    registrations             \* app.py: the handlers of /register at work

envVars == <<API_KEY, SECRET_KEY, TARGET_SYMBOL, USDT_AMOUNT_STR>>
gridVars == <<upper_p, lower_p, num_g>>
planVars == <<mode, envVars, USDT_AMOUNT, gridVars, ratio, lvls, grid_levels,
              ORDER_QTY_PER_GRID, exit_code>>
tickVars == <<current_price, open_orders_list, open_order_prices, idx,
              placed_orders_this_cycle>>
histVars == <<submitted, fetch_state, tick_state, sleeps, last_complete>>

cycleVars == <<buy_filled, polled, totals>>
volVars == <<ITERATIONS_STR, ITERATIONS, current_cycle, cycleVars>>
clientVars == <<call, wire, result>>
storeVars == <<USER_DATA_FILE, registrations>>
appVars == <<running_strategies, processes, threads, responses, storeVars>>
\* what the steps of a grid strategy's __main__ leave alone
outsideVars == <<volVars, clientVars, appVars>>

vars == <<planVars, pc, tickVars, book, order_count, histVars, interrupted, outsideVars>>

\* prices the ticker can report: SubTicks prices per tick, from below the
\* lowest level to above the highest
Prices ==
    LET sub == PRICE_PRECISION \div SubTicks
    IN  { p \in (grid_levels[Len(grid_levels)] - sub)..(grid_levels[1] + sub) : p % sub = 0 }

NoOrders == [s \in Sides |-> {}]

\* the statements of the try block, up to the last one of the for loop
InTry == {"tick_start", "retry_sleep", "print_price", "fetch_orders", "levels", "pause"}

\* a value of an environment variable that is set and not empty
Present == Some(<<"x">>)

\* the loop's variables before the first tick
LoopInit ==
    /\ current_price = None
    /\ open_orders_list = {}
    /\ open_order_prices = NoOrders
    /\ idx = 1
    /\ placed_orders_this_cycle = 0
    /\ book = EmptyBag
    /\ order_count = 0
    /\ submitted = <<>>
    /\ fetch_state = "none"
    /\ tick_state = "init"
    /\ sleeps = 0
    /\ interrupted = FALSE
    /\ last_complete = None

\* no iteration limit, no call of the signed client, no control plane
NoCycle ==
    /\ current_cycle = 0
    /\ buy_filled = FALSE
    /\ polled = <<>>
    /\ totals = [buys |-> 0, filled |-> 0, sells |-> 0]
NoIterations == ITERATIONS_STR = None /\ ITERATIONS = None /\ NoCycle
NoCall == call = None /\ wire = <<>> /\ result = None
NoControlPlane ==
    /\ running_strategies = <<>>
    /\ processes = <<>>
    /\ threads = <<>>
    /\ responses = <<>>
    /\ USER_DATA_FILE = <<>>
    /\ registrations = <<>>

\* the loop is about to start: the defaults of the strategy file, a budget
\* that passes the checks of __main__, and the plan calculated from them
Init ==
    /\ mode \in {m \in Modes : StartupOk(m, DecOfInt(UsdtAmount))}
    /\ API_KEY = Present /\ SECRET_KEY = Present /\ TARGET_SYMBOL = Present
    /\ USDT_AMOUNT_STR = Some(IntChars(UsdtAmount))
    /\ USDT_AMOUNT = Val(ParseDecimal(Val(USDT_AMOUNT_STR)))
    /\ upper_p = DEFAULT_UPPER_PRICE(mode)
    /\ lower_p = DEFAULT_LOWER_PRICE
    /\ num_g = DEFAULT_NUM_GRIDS
    /\ ratio \in Ratios(mode, upper_p, lower_p, num_g)
    /\ calculate_grid_levels(mode, upper_p, lower_p, num_g, ratio) # <<>>
    /\ lvls = Levels(mode, upper_p, lower_p, num_g, ratio)
    /\ grid_levels = calculate_grid_levels(mode, upper_p, lower_p, num_g, ratio)
    /\ ORDER_QTY_PER_GRID = calculated_order_qty(USDT_AMOUNT, upper_p, lower_p, num_g)
    /\ exit_code = None
    /\ pc = "tick_start"
    /\ LoopInit
    /\ NoIterations /\ NoCall /\ NoControlPlane

\* ------------------------------------------------------------- the gateway
\* place_limit_order: the request parameters
place_limit_order(side, quantity, price) ==
    [side |-> side, price |-> QuantizeDown(price), qty |-> QuantizeQty(quantity)]

\* the record the exchange lists for a resting order
OpenOrderRecord(o) == [orderId |-> Some("id"), side |-> Some(o.side), price |-> Some(o.price)]

OpenOrdersList(resting) == { OpenOrderRecord(o) : o \in resting }

\* the records the reduction takes in: the normal grid wants price, side and
\* orderId (`if order_price_str and order_side and order_id`); the log grid
\* reads price and side only, and passes over the record on the exception
\* that Decimal(None) or None.upper() raises
RecordIsRead(m, o) ==
    /\ o.price # None
    /\ o.side # None
    /\ m = "normal" => o.orderId # None

\* the reduction of the open-orders list to open_order_prices
ParseOpenOrders(m, orders) ==
    [s \in Sides |->
        { QuantizeHalfEven(Val(o.price)) :
              o \in {x \in orders : RecordIsRead(m, x) /\ Val(x.side) = s} }]

\* the if / elif of the for loop (normal grid): the side to place at a level
GapSideNormal(level_quantized, price, open) ==
    IF level_quantized < price
    THEN (IF level_quantized \notin open["BUY"] THEN "BUY" ELSE "NONE")
    ELSE IF level_quantized > price
    THEN (IF level_quantized \notin open["SELL"] THEN "SELL" ELSE "NONE")
    ELSE "NONE"

\* the if / elif of the for loop (log grid)
GapSideLog(lq, price, open) ==
    IF lq < price /\ lq \notin open["BUY"] THEN "BUY"
    ELSE IF lq > price /\ lq \notin open["SELL"] THEN "SELL"
    ELSE "NONE"

\* mutant: the BUY test reads the open SELLs and the SELL test the open BUYs
GapSide_WrongBook(m, lq, price, open) ==
    IF lq < price /\ lq \notin open["SELL"] THEN "BUY"
    ELSE IF lq > price /\ lq \notin open["BUY"] THEN "SELL"
    ELSE "NONE"

\* mutant: a level equal to the price counts as below it
GapSide_AtPrice(m, lq, price, open) ==
    IF lq <= price /\ lq \notin open["BUY"] THEN "BUY"
    ELSE IF lq > price /\ lq \notin open["SELL"] THEN "SELL"
    ELSE "NONE"

GapSide(m, lq, price, open) ==
    IF m = "normal" THEN GapSideNormal(lq, price, open) ELSE GapSideLog(lq, price, open)

\* the side the for loop is about to act on
CurrentSide == GapSide(mode, QuantizeHalfEven(grid_levels[idx]), Val(current_price),
                       open_order_prices)

\* mutant: the order is priced at the market, not at the level
CurrentOrder_AtMarket ==
    place_limit_order(CurrentSide, ORDER_QTY_PER_GRID, Val(current_price))

CurrentOrder == place_limit_order(CurrentSide, ORDER_QTY_PER_GRID,
                                  QuantizeHalfEven(grid_levels[idx]))

\* the record of the previous tick is kept only while this tick repeats it
KeepIf(last, same) == IF last # None /\ same THEN last ELSE None

\* ------------------------------------------------------------ the loop
\* get_current_price at the top of the try block
GetCurrentPrice ==
    /\ pc = "tick_start"
    /\ \E p \in Prices :
         /\ current_price' = Some(p)
         /\ pc' = "print_price"
         /\ last_complete' = KeepIf(last_complete, p = last_complete[1].price)
    /\ submitted' = <<>>
    /\ fetch_state' = "none"
    /\ tick_state' = "running"
    /\ sleeps' = 0
    /\ UNCHANGED <<outsideVars, planVars, open_order_prices, open_orders_list, idx, placed_orders_this_cycle, book,
                   order_count, interrupted>>

\* get_current_price returns None: "Retrying next cycle"
GetCurrentPriceFails ==
    /\ pc = "tick_start"
    /\ current_price' = None
    /\ pc' = "retry_sleep"
    /\ submitted' = <<>>
    /\ fetch_state' = "none"
    /\ tick_state' = "price_failed"
    /\ sleeps' = 0
    /\ last_complete' = None
    /\ UNCHANGED <<outsideVars, planVars, open_order_prices, open_orders_list, idx, placed_orders_this_cycle, book,
                   order_count, interrupted>>

\* mutant: the continue is missing, the loop goes on to the sleep after the try
RetrySleep_NoContinue ==
    /\ pc = "retry_sleep"
    /\ pc' = "tick_sleep"
    /\ sleeps' = sleeps + 1
    /\ UNCHANGED <<outsideVars, planVars, tickVars, book, order_count, submitted, fetch_state,
                   tick_state, interrupted, last_complete>>

\* time.sleep(check_interval); continue
RetrySleep ==
    /\ pc = "retry_sleep"
    /\ pc' = "tick_start"
    /\ sleeps' = sleeps + 1
    /\ UNCHANGED <<outsideVars, planVars, tickVars, book, order_count, submitted, fetch_state,
                   tick_state, interrupted, last_complete>>

\* the log grid prints the price with abs(PRICE_PRECISION.as_tuple().exponent)
\* decimal places and goes on to the open orders
PrintPrice ==
    /\ pc = "print_price"
    /\ mode = "log"
    /\ pc' = "fetch_orders"
    /\ UNCHANGED <<outsideVars, planVars, tickVars, book, order_count, histVars, interrupted>>

\* mutant: the handler of other exceptions leaves the loop
TickException_Stops ==
    /\ pc = "print_price"
    /\ mode = "normal"
    /\ pc' = "stopped"
    /\ tick_state' = "error"
    /\ last_complete' = None
    /\ UNCHANGED <<outsideVars, planVars, tickVars, book, order_count, submitted, fetch_state, sleeps,
                   interrupted>>

\* the normal grid prints the price with PRICE_PRECISION.normalize().scale
\* decimal places: Decimal has no attribute scale, so the statement raises
\* AttributeError in every tick that fetched a price; except Exception prints
\* the traceback and the loop goes on to the sleep after the try statement
TickException ==
    /\ pc = "print_price"
    /\ mode = "normal"
    /\ pc' = "tick_sleep"
    /\ tick_state' = "error"
    /\ last_complete' = None
    /\ UNCHANGED <<outsideVars, planVars, tickVars, book, order_count, submitted, fetch_state, sleeps,
                   interrupted>>

\* mutant: the snapshot of the previous tick is kept and the list merged into it
GetOpenOrders_Merged ==
    /\ pc = "fetch_orders"
    /\ open_orders_list' = OpenOrdersList(BagToSet(book))
    /\ open_order_prices' =
         [s \in Sides |-> open_order_prices[s]
                              \cup ParseOpenOrders(mode, open_orders_list')[s]]
    /\ fetch_state' = "ok"
    /\ placed_orders_this_cycle' = 0
    /\ idx' = 1
    /\ pc' = "levels"
    /\ last_complete' = KeepIf(last_complete, open_order_prices' = last_complete[1].open)
    /\ UNCHANGED <<outsideVars, planVars, current_price, book, order_count, submitted, tick_state,
                   sleeps, interrupted>>

\* get_open_orders returns the exchange's list
GetOpenOrders ==
    /\ pc = "fetch_orders"
    /\ open_orders_list' = OpenOrdersList(BagToSet(book))
    /\ open_order_prices' = ParseOpenOrders(mode, open_orders_list')
    /\ fetch_state' = "ok"
    /\ placed_orders_this_cycle' = 0
    /\ idx' = 1
    /\ pc' = "levels"
    /\ last_complete' = KeepIf(last_complete, open_order_prices' = last_complete[1].open)
    /\ UNCHANGED <<outsideVars, planVars, current_price, book, order_count, submitted, tick_state,
                   sleeps, interrupted>>

\* make_signed_request returns None: get_open_orders returns []
GetOpenOrdersFails ==
    /\ pc = "fetch_orders"
    /\ open_orders_list' = {}
    /\ open_order_prices' = ParseOpenOrders(mode, open_orders_list')
    /\ fetch_state' = "failed"
    /\ placed_orders_this_cycle' = 0
    /\ idx' = 1
    /\ pc' = "levels"
    /\ last_complete' = KeepIf(last_complete, open_order_prices' = last_complete[1].open)
    /\ UNCHANGED <<outsideVars, planVars, current_price, book, order_count, submitted, tick_state,
                   sleeps, interrupted>>

\* the level needs no order: the for loop moves on
SkipLevel ==
    /\ pc = "levels"
    /\ idx <= Len(grid_levels)
    /\ CurrentSide = "NONE"
    /\ idx' = idx + 1
    /\ UNCHANGED <<outsideVars, planVars, pc, current_price, open_order_prices, open_orders_list,
                   placed_orders_this_cycle, book, order_count, histVars, interrupted>>

\* place_limit_order returns the order record: the order rests on the book
PlaceOrderAccepted ==
    /\ pc = "levels"
    /\ idx <= Len(grid_levels)
    /\ CurrentSide # "NONE"
    /\ order_count < MaxOrders
    /\ book' = book (+) SetToBag({CurrentOrder})
    /\ order_count' = order_count + 1
    /\ submitted' = Append(submitted, [order |-> CurrentOrder, ok |-> TRUE])
    /\ placed_orders_this_cycle' = placed_orders_this_cycle + 1
    /\ pc' = "pause"
    /\ UNCHANGED <<outsideVars, planVars, current_price, open_order_prices, open_orders_list, idx, fetch_state,
                   tick_state, sleeps, interrupted, last_complete>>

\* mutant: a failed placement leaves the for loop
PlaceOrderFails_Break ==
    /\ pc = "levels"
    /\ idx <= Len(grid_levels)
    /\ CurrentSide # "NONE"
    /\ submitted' = Append(submitted, [order |-> CurrentOrder, ok |-> FALSE])
    /\ idx' = Len(grid_levels) + 1
    /\ UNCHANGED <<outsideVars, planVars, pc, current_price, open_order_prices, open_orders_list,
                   placed_orders_this_cycle, book, order_count, fetch_state, tick_state,
                   sleeps, interrupted, last_complete>>

\* place_limit_order returns None (or a record without orderId): "Failed to place"
PlaceOrderFails ==
    /\ pc = "levels"
    /\ idx <= Len(grid_levels)
    /\ CurrentSide # "NONE"
    /\ submitted' = Append(submitted, [order |-> CurrentOrder, ok |-> FALSE])
    /\ idx' = idx + 1
    /\ UNCHANGED <<outsideVars, planVars, pc, current_price, open_order_prices, open_orders_list,
                   placed_orders_this_cycle, book, order_count, fetch_state, tick_state,
                   sleeps, interrupted, last_complete>>

\* time.sleep(0.2) after a placement
PauseDone ==
    /\ pc = "pause"
    /\ idx' = idx + 1
    /\ pc' = "levels"
    /\ UNCHANGED <<outsideVars, planVars, current_price, open_order_prices, open_orders_list, placed_orders_this_cycle,
                   book, order_count, histVars, interrupted>>

\* the levels this tick's submissions were made at, by side
SubmittedAt(s) ==
    { submitted[i].order.price : i \in {j \in 1..Len(submitted) : submitted[j].order.side = s} }

AllAccepted == \A i \in 1..Len(submitted) : submitted[i].ok

\* the for loop is exhausted: "Grid check complete"
TickComplete ==
    /\ pc = "levels"
    /\ idx > Len(grid_levels)
    /\ pc' = "tick_sleep"
    /\ tick_state' = "complete"
    /\ last_complete' =
         IF AllAccepted
         THEN Some([price |-> Val(current_price),
                    open |-> [s \in Sides |-> open_order_prices[s] \cup SubmittedAt(s)],
                    placed |-> placed_orders_this_cycle])
         ELSE None
    /\ UNCHANGED <<outsideVars, planVars, tickVars, book, order_count, submitted, fetch_state, sleeps,
                   interrupted>>

\* time.sleep(check_interval) after the try statement
TickSleep ==
    /\ pc = "tick_sleep"
    /\ pc' = "tick_start"
    /\ sleeps' = sleeps + 1
    /\ UNCHANGED <<outsideVars, planVars, tickVars, book, order_count, submitted, fetch_state,
                   tick_state, interrupted, last_complete>>

\* mutant: the interrupt only sets a flag and the tick goes on
InterruptInTry_Deferred ==
    /\ pc \in InTry
    /\ ~interrupted
    /\ interrupted' = TRUE
    /\ UNCHANGED <<outsideVars, planVars, pc, tickVars, book, order_count, histVars>>

\* mutant: the handler cancels every resting order before it leaves the loop
InterruptInTry_CancelsAll ==
    /\ pc \in InTry
    /\ pc' = "stopped"
    /\ interrupted' = TRUE
    /\ book' = EmptyBag
    /\ UNCHANGED <<outsideVars, planVars, tickVars, order_count, histVars>>

\* KeyboardInterrupt raised inside the try block: except KeyboardInterrupt: break
InterruptInTry ==
    /\ pc \in InTry
    /\ pc' = "stopped"
    /\ interrupted' = TRUE
    /\ UNCHANGED <<outsideVars, planVars, tickVars, book, order_count, histVars>>

\* KeyboardInterrupt raised in the time.sleep(check_interval) that follows
\* the try statement: no handler encloses it, the process dies on the exception
InterruptInSleep ==
    /\ pc = "tick_sleep"
    /\ pc' = "crashed"
    /\ interrupted' = TRUE
    /\ UNCHANGED <<outsideVars, planVars, tickVars, book, order_count, histVars>>

\* the exchange fills or cancels one resting order
ExchangeRemoves ==
    /\ \E o \in BagToSet(book) : book' = book (-) SetToBag({o})
    /\ UNCHANGED <<outsideVars, planVars, pc, tickVars, order_count, histVars, interrupted>>

Next ==
    \/ GetCurrentPrice
    \/ GetCurrentPriceFails
    \/ RetrySleep
    \/ PrintPrice
    \/ GetOpenOrders
    \/ GetOpenOrdersFails
    \/ SkipLevel
    \/ PlaceOrderAccepted
    \/ PlaceOrderFails
    \/ PauseDone
    \/ TickComplete
    \/ TickException
    \/ TickSleep
    \/ InterruptInTry
    \/ InterruptInSleep
    \/ ExchangeRemoves

Spec == Init /\ [][Next]_vars

\* ------------------------------------------- lists with incomplete records
\* records of an open-orders list that lack the orderId, the side or the
\* price, at the highest and at the lowest level of the plan
IncompleteRecords ==
    UNION { { [orderId |-> None, side |-> Some(o.side), price |-> Some(o.price)],
              [orderId |-> Some("id"), side |-> None, price |-> Some(o.price)],
              [orderId |-> Some("id"), side |-> Some(o.side), price |-> None] } :
            o \in { [side |-> "SELL", price |-> grid_levels[1]],
                    [side |-> "BUY", price |-> grid_levels[Len(grid_levels)]] } }

\* get_open_orders returns the exchange's list, one record of which is incomplete
GetOpenOrdersIncomplete ==
    /\ pc = "fetch_orders"
    /\ \E o \in IncompleteRecords :
         open_orders_list' = OpenOrdersList(BagToSet(book)) \cup {o}
    /\ open_order_prices' = ParseOpenOrders(mode, open_orders_list')
    /\ fetch_state' = "ok"
    /\ placed_orders_this_cycle' = 0
    /\ idx' = 1
    /\ pc' = "levels"
    /\ last_complete' = KeepIf(last_complete, open_order_prices' = last_complete[1].open)
    /\ UNCHANGED <<outsideVars, planVars, current_price, book, order_count, submitted, tick_state,
                   sleeps, interrupted>>

\* the ticks of either grid on lists of complete and of incomplete records
NextTick ==
    \/ GetCurrentPrice
    \/ PrintPrice
    \/ TickException
    \/ GetOpenOrders
    \/ GetOpenOrdersIncomplete
    \/ SkipLevel
    \/ PlaceOrderAccepted
    \/ PlaceOrderFails
    \/ PauseDone
    \/ TickComplete
    \/ TickSleep

SpecTick == Init /\ [][NextTick]_vars

\* ------------------------------------------- the calculation of the plan
loopVars == <<tickVars, book, order_count, histVars, interrupted>>

\* calculate_grid_levels returns [] for parameters its guards reject
RejectGridParameters ==
    /\ pc = "calculate"
    /\ InvalidGridParameters(mode, upper_p, lower_p, num_g)
    /\ grid_levels' = <<>>
    /\ pc' = "check_levels"
    /\ UNCHANGED <<outsideVars, mode, envVars, USDT_AMOUNT, gridVars, ratio, lvls, ORDER_QTY_PER_GRID,
                   exit_code, loopVars>>

\* the step (or the ratio) and the num_grids + 1 levels
ComputeLevels ==
    /\ pc = "calculate"
    /\ ~InvalidGridParameters(mode, upper_p, lower_p, num_g)
    /\ \E rt \in Ratios(mode, upper_p, lower_p, num_g) :
         /\ ratio' = rt
         /\ IF mode = "log" /\ DecCmp(rt, DecOfInt(1)) <= 0
            THEN lvls' = <<>> /\ grid_levels' = <<>> /\ pc' = "check_levels"
            ELSE /\ lvls' = Levels(mode, upper_p, lower_p, num_g, rt)
                 /\ grid_levels' = grid_levels
                 /\ pc' = "format"
    /\ UNCHANGED <<outsideVars, mode, envVars, USDT_AMOUNT, gridVars, ORDER_QTY_PER_GRID, exit_code,
                   loopVars>>

\* quantization to the tick, deduplication and the descending sort; fewer
\* than two levels only print a warning
FormatLevels ==
    /\ pc = "format"
    /\ grid_levels' = UniqueSorted(mode, lvls, lower_p)
    /\ pc' = "check_levels"
    /\ UNCHANGED <<outsideVars, mode, envVars, USDT_AMOUNT, gridVars, ratio, lvls, ORDER_QTY_PER_GRID,
                   exit_code, loopVars>>

\* grid parameters calculate_grid_levels is applied to: ranges of a few
\* ticks, on and off the tick grid, lower bounds that are not positive, and
\* the 0.7 / 0.6 of the strategy files
UpperPrices == {10, 20, 25, 80, 70000}
LowerPrices == {-15, -10, 0, 10, 15, 60000}
\* small counts and the DEFAULT_NUM_GRIDS of the strategy file
GridCounts(m) == {0, 1, 2, 3} \cup {IF m = "normal" THEN 10 ELSE 5}

InitLevels ==
    /\ mode \in Modes
    /\ upper_p \in UpperPrices
    /\ lower_p \in LowerPrices
    /\ num_g \in GridCounts(mode)
    /\ API_KEY = Present /\ SECRET_KEY = Present /\ TARGET_SYMBOL = Present
    /\ USDT_AMOUNT_STR = Some(IntChars(UsdtAmount))
    /\ USDT_AMOUNT = Val(ParseDecimal(Val(USDT_AMOUNT_STR)))
    /\ ratio = DecOfInt(1)
    /\ lvls = <<>>
    /\ grid_levels = <<>>
    /\ ORDER_QTY_PER_GRID = 0
    /\ exit_code = None
    /\ pc = "calculate"
    /\ LoopInit
    /\ NoIterations /\ NoCall /\ NoControlPlane

NextLevels ==
    \/ RejectGridParameters
    \/ ComputeLevels
    \/ FormatLevels

SpecLevels == InitLevels /\ [][NextLevels]_vars

\* ------------------------------------------------------------ startup
\* an exit of the interpreter with status code
Exit(code) ==
    /\ exit_code' = Some(code)
    /\ pc' = "exited"

\* the iteration count the volume strategy falls back to
DEFAULT_ITERATIONS == 5

\* int(ITERATIONS_STR): None for the ValueError of a string that spells no
\* integer
ParseInt(chars) ==
    IF chars # <<>> /\ \A i \in 1..Len(chars) : IsDigit(chars[i])
    THEN Some(BToInt(BTrim(DigitsCoef(chars, <<>>))))
    ELSE IF Len(chars) > 1 /\ chars[1] = "-"
            /\ \A i \in 2..Len(chars) : IsDigit(chars[i])
    THEN Some(0 - BToInt(BTrim(DigitsCoef(Tail(chars), <<>>))))
    ELSE None

\* ITERATIONS: None (no limit) when the variable is not set or empty, the
\* number when it is an integer of at least 1, DEFAULT_ITERATIONS otherwise
parsed_iterations(str) ==
    IF str = None \/ Val(str) = <<>>
    THEN None
    ELSE IF ParseInt(Val(str)) = None THEN Some(DEFAULT_ITERATIONS)
    ELSE IF Val(ParseInt(Val(str))) < 1 THEN Some(DEFAULT_ITERATIONS)
    ELSE ParseInt(Val(str))

\* the module-level validation of the parameters finds nothing wrong
ValidateParameters ==
    /\ pc = "validate"
    /\ ParametersValid(API_KEY, SECRET_KEY, TARGET_SYMBOL, USDT_AMOUNT_STR)
    /\ USDT_AMOUNT' = Val(ParseDecimal(Val(USDT_AMOUNT_STR)))
    /\ ITERATIONS' = IF mode = "volume" THEN parsed_iterations(ITERATIONS_STR) ELSE ITERATIONS
    /\ pc' = IF mode = "volume" THEN "volume_price" ELSE "sizing"
    /\ UNCHANGED <<ITERATIONS_STR, current_cycle, cycleVars, clientVars, appVars, mode, envVars, gridVars,
                   ratio, lvls, grid_levels, ORDER_QTY_PER_GRID, exit_code, loopVars>>

\* a key, the symbol or the budget is missing, or the budget is no positive
\* number: sys.exit(1)
ValidateParametersFails ==
    /\ pc = "validate"
    /\ ~ParametersValid(API_KEY, SECRET_KEY, TARGET_SYMBOL, USDT_AMOUNT_STR)
    /\ Exit(1)
    /\ UNCHANGED <<outsideVars, mode, envVars, USDT_AMOUNT, gridVars, ratio, lvls, grid_levels,
                   ORDER_QTY_PER_GRID, loopVars>>

\* the sizing block of the grid strategies' __main__
CalculateOrderQuantity ==
    /\ pc = "sizing"
    /\ SizingOk(USDT_AMOUNT, upper_p, lower_p, num_g)
    /\ ORDER_QTY_PER_GRID' = calculated_order_qty(USDT_AMOUNT, upper_p, lower_p, num_g)
    /\ pc' = "calculate"
    /\ UNCHANGED <<outsideVars, mode, envVars, USDT_AMOUNT, gridVars, ratio, lvls, grid_levels,
                   exit_code, loopVars>>

\* one of the checks of the sizing block fails: sys.exit(1)
CalculateOrderQuantityFails ==
    /\ pc = "sizing"
    /\ ~SizingOk(USDT_AMOUNT, upper_p, lower_p, num_g)
    /\ Exit(1)
    /\ UNCHANGED <<outsideVars, mode, envVars, USDT_AMOUNT, gridVars, ratio, lvls, grid_levels,
                   ORDER_QTY_PER_GRID, loopVars>>

\* if not grid_levels: sys.exit(1); otherwise the loop starts
CheckGridLevels ==
    /\ pc = "check_levels"
    /\ IF grid_levels = <<>>
       THEN Exit(1)
       ELSE pc' = "tick_start" /\ exit_code' = exit_code
    /\ UNCHANGED <<outsideVars, mode, envVars, USDT_AMOUNT, gridVars, ratio, lvls, grid_levels,
                   ORDER_QTY_PER_GRID, loopVars>>

\* ------------------------------------------------- the volume strategy
\* prices the ticker reports to the volume strategy, in raw units: none,
\* 0.7, 1 and 30
VolumePrices == {0, 70000, 100000, 3000000}

\* cycles of the volume strategy that one run makes
MaxCycles == 3

\* values of VAULT_ITERATIONS: not set, empty, no number, 0, -1, 1 and 2
IterationStrings ==
    {None, Some(<<>>), Some(<<"x">>), Some(<<"0">>), Some(<<"-", "1">>),
     Some(IntChars(1)), Some(IntChars(2))}

\* get_current_price at startup returns a positive price
VolumeGetPrice ==
    /\ pc = "volume_price"
    /\ \E p \in VolumePrices : p > 0 /\ current_price' = Some(p)
    /\ pc' = "volume_sizing"
    /\ UNCHANGED <<outsideVars, planVars, open_order_prices, open_orders_list, idx, placed_orders_this_cycle, book,
                   order_count, histVars, interrupted>>

\* get_current_price returns None or a price that is not positive: sys.exit(1)
VolumeGetPriceFails ==
    /\ pc = "volume_price"
    /\ \E p \in {None} \cup { Some(q) : q \in {r \in VolumePrices : r <= 0} } :
         current_price' = p
    /\ Exit(1)
    /\ UNCHANGED <<outsideVars, mode, envVars, USDT_AMOUNT, gridVars, ratio, lvls, grid_levels,
                   ORDER_QTY_PER_GRID, open_order_prices, open_orders_list, idx, placed_orders_this_cycle,
                   book, order_count, histVars, interrupted>>

\* ORDER_QUANTITY passes the sanity checks
VolumeCalculateOrderQuantity ==
    /\ pc = "volume_sizing"
    /\ VolumeSizingOk(USDT_AMOUNT, Val(current_price))
    /\ ORDER_QTY_PER_GRID' = volume_order_quantity(USDT_AMOUNT, Val(current_price))
    /\ pc' = "volume_buy"
    /\ UNCHANGED <<outsideVars, mode, envVars, USDT_AMOUNT, gridVars, ratio, lvls, grid_levels,
                   exit_code, loopVars>>

\* ORDER_QUANTITY is zero or its notional is below the minimum: sys.exit(1)
VolumeCalculateOrderQuantityFails ==
    /\ pc = "volume_sizing"
    /\ ~VolumeSizingOk(USDT_AMOUNT, Val(current_price))
    /\ Exit(1)
    /\ UNCHANGED <<outsideVars, mode, envVars, USDT_AMOUNT, gridVars, ratio, lvls, grid_levels,
                   ORDER_QTY_PER_GRID, loopVars>>

\* place_market_order: the request parameters (a market order has no price)
place_market_order(side, quantity) ==
    [side |-> side, price |-> 0, qty |-> QuantizeQty(quantity)]

\* a cycle's place_market_order call: no request is made for a quantity that
\* is not positive; a request is accepted (the order is then polled) or fails
VolumePlaceOrder(side, placed, failed) ==
    /\ \E ok \in BOOLEAN :
         IF place_market_order(side, ORDER_QTY_PER_GRID).qty <= 0
         THEN /\ submitted' = (IF side = "BUY" THEN <<>> ELSE submitted)
              /\ totals' = totals
              /\ pc' = failed
         ELSE /\ submitted' = (IF side = "BUY" THEN <<>> ELSE submitted)
                    \o <<[order |-> place_market_order(side, ORDER_QTY_PER_GRID),
                          ok |-> ok]>>
              /\ totals' = IF side = "BUY" THEN [totals EXCEPT !.buys = @ + 1]
                                           ELSE [totals EXCEPT !.sells = @ + 1]
              /\ pc' = IF ok THEN placed ELSE failed
    /\ UNCHANGED <<ITERATIONS_STR, ITERATIONS, clientVars, appVars, planVars, tickVars, book,
                   order_count, fetch_state, tick_state, sleeps, last_complete, interrupted>>

\* current_cycle += 1, buy_filled = False, and 1. the BUY of the cycle; a
\* failure skips the rest of the cycle (continue)
VolumePlaceBuy ==
    /\ pc = "volume_buy"
    /\ current_cycle < MaxCycles
    /\ current_cycle' = current_cycle + 1
    /\ buy_filled' = FALSE
    /\ polled' = <<>>
    /\ VolumePlaceOrder("BUY", "volume_poll_buy", "volume_buy")

\* attempts of a poll (MAX_POLL_ATTEMPTS, 20 in the file)
MaxPollAttempts == 2

\* what get_order_status returns: None, or a record with a status
PollAnswers == {None, Some("FILLED"), Some("NEW"), Some("CANCELED")}

\* mutant: the first status record that comes back counts as a fill
PollOrder_AnyStatus(answers, attempt) ==
    IF answers[attempt] # None THEN [filled |-> TRUE, read |-> attempt]
    ELSE [filled |-> FALSE, read |-> Len(answers)]

RECURSIVE PollOrder(_, _)
\* for attempt in range(MAX_POLL_ATTEMPTS): FILLED ends the poll with the
\* order filled; CANCELED, EXPIRED and REJECTED end it, and so does NEW in the
\* last attempt; any other answer goes on to the next attempt.  The result
\* is the flag and the number of answers read.
PollOrder(answers, attempt) ==
    IF attempt > Len(answers) THEN [filled |-> FALSE, read |-> Len(answers)]
    ELSE IF answers[attempt] = Some("FILLED") THEN [filled |-> TRUE, read |-> attempt]
    ELSE IF answers[attempt] \in {Some("CANCELED"), Some("EXPIRED"), Some("REJECTED")}
         THEN [filled |-> FALSE, read |-> attempt]
    ELSE IF answers[attempt] = Some("NEW") /\ attempt = Len(answers)
         THEN [filled |-> FALSE, read |-> attempt]
    ELSE PollOrder(answers, attempt + 1)

\* 2. the polling of the BUY ends with the order filled or not (continue)
VolumePollBuy ==
    /\ pc = "volume_poll_buy"
    /\ \E answers \in [1..MaxPollAttempts -> PollAnswers] :
         /\ buy_filled' = PollOrder(answers, 1).filled
         /\ polled' = SubSeq(answers, 1, PollOrder(answers, 1).read)
         /\ totals' = IF buy_filled' THEN [totals EXCEPT !.filled = @ + 1] ELSE totals
         /\ pc' = IF buy_filled' THEN "volume_sell" ELSE "volume_buy"
    /\ UNCHANGED <<ITERATIONS_STR, ITERATIONS, current_cycle, clientVars, appVars, planVars,
                   tickVars, book, order_count, histVars, interrupted>>

\* 3. the SELL of the cycle, under `if buy_filled`
VolumePlaceSell ==
    /\ pc = "volume_sell"
    /\ buy_filled
    /\ UNCHANGED <<current_cycle, buy_filled, polled>>
    /\ VolumePlaceOrder("SELL", "volume_poll_sell", "volume_cycle_end")

\* mutant: a SELL that was not seen FILLED is placed again
VolumePollSell_SellsAgain ==
    /\ pc = "volume_poll_sell"
    /\ pc' \in {"volume_cycle_end", "volume_sell"}
    /\ UNCHANGED <<outsideVars, planVars, tickVars, book, order_count, histVars, interrupted>>

\* 4. the polling of the SELL
VolumePollSell ==
    /\ pc = "volume_poll_sell"
    /\ pc' = "volume_cycle_end"
    /\ UNCHANGED <<outsideVars, planVars, tickVars, book, order_count, histVars, interrupted>>

\* the end of a cycle: the target is reached
IterationsReached(iterations, cycle) == iterations # None /\ cycle >= Val(iterations)

\* the target is not reached, or there is none: time.sleep(DELAY_SECONDS)
VolumeCycleEnd ==
    /\ pc = "volume_cycle_end"
    /\ ~IterationsReached(ITERATIONS, current_cycle)
    /\ pc' = "volume_buy"
    /\ UNCHANGED <<outsideVars, planVars, tickVars, book, order_count, histVars, interrupted>>

\* the target is reached: break, "Strategy finished."
VolumeFinish ==
    /\ pc = "volume_cycle_end"
    /\ IterationsReached(ITERATIONS, current_cycle)
    /\ pc' = "finished"
    /\ exit_code' = Some(0)
    /\ UNCHANGED <<outsideVars, mode, envVars, USDT_AMOUNT, gridVars, ratio, lvls, grid_levels,
                   ORDER_QTY_PER_GRID, loopVars>>

\* ------------------------------------------------- startup, from the top
\* values of an environment variable: not set, empty, set
EnvValues == {None, Some(<<>>), Present}

\* budgets in VAULT_USDT_AMOUNT: not set, empty, not a number, zero,
\* negative, a fraction of a cent, 1, 4, 20 and the budget of the loop
BudgetStrings ==
    {None, Some(<<>>), Some(<<"a", "b", "c">>), Some(<<"0">>), Some(<<"-", "5">>),
     Some(<<"0", ".", "0", "0", "0", "1">>), Some(<<"1">>), Some(<<"4">>),
     Some(<<"2", "0">>), Some(IntChars(UsdtAmount))}

\* grid parameters the strategy files are started with: ranges of a few
\* ticks, on and off the tick grid, empty and inverted ranges, lower bounds
\* that are not positive, and no grid at all
StartupUpperPrices == {15, 20, 30, 35}
StartupLowerPrices == {-15, -10, 0, 10, 15, 20}
StartupGridCounts == {0, 1, 2}

\* the scenario of the minimum notional: a range from 1.0 to 3.0 in two
\* grids and a budget of 16, which gives a quantity of 4
ScenarioBudget == Some(<<"1", "6">>)
MinNotionalScenario ==
    /\ mode \in Modes
    /\ upper_p = 300000 /\ lower_p = 100000 /\ num_g = 2
    /\ API_KEY = Present /\ SECRET_KEY = Present /\ TARGET_SYMBOL = Present
    /\ USDT_AMOUNT_STR = ScenarioBudget

InitStartup ==
    /\ \/ /\ mode \in Modes
          /\ upper_p \in StartupUpperPrices
          /\ lower_p \in StartupLowerPrices
          /\ num_g \in StartupGridCounts
          /\ API_KEY \in EnvValues /\ SECRET_KEY \in EnvValues
          /\ TARGET_SYMBOL \in EnvValues
          /\ USDT_AMOUNT_STR \in BudgetStrings
          /\ ITERATIONS_STR = None
       \/ MinNotionalScenario /\ ITERATIONS_STR = None
       \/ /\ mode = "volume"
          /\ upper_p = 0 /\ lower_p = 0 /\ num_g = 0
          /\ API_KEY \in EnvValues /\ SECRET_KEY \in EnvValues
          /\ TARGET_SYMBOL \in EnvValues
          /\ USDT_AMOUNT_STR \in BudgetStrings
          /\ ITERATIONS_STR \in IterationStrings
    /\ USDT_AMOUNT = DecZero
    /\ ratio = DecOfInt(1)
    /\ lvls = <<>>
    /\ grid_levels = <<>>
    /\ ORDER_QTY_PER_GRID = 0
    /\ exit_code = None
    /\ pc = "validate"
    /\ LoopInit
    /\ ITERATIONS = None /\ NoCycle
    /\ NoCall /\ NoControlPlane

\* startup, and the ticks and cycles that follow it when the exchange
\* answers every request
NextStartup ==
    \/ ValidateParameters
    \/ ValidateParametersFails
    \/ CalculateOrderQuantity
    \/ CalculateOrderQuantityFails
    \/ RejectGridParameters
    \/ ComputeLevels
    \/ FormatLevels
    \/ CheckGridLevels
    \/ GetCurrentPrice
    \/ PrintPrice
    \/ TickException
    \/ GetOpenOrders
    \/ SkipLevel
    \/ PlaceOrderAccepted
    \/ PauseDone
    \/ TickComplete
    \/ TickSleep
    \/ VolumeGetPrice
    \/ VolumeGetPriceFails
    \/ VolumeCalculateOrderQuantity
    \/ VolumeCalculateOrderQuantityFails
    \/ VolumePlaceBuy
    \/ VolumePollBuy
    \/ VolumePlaceSell
    \/ VolumePollSell
    \/ VolumeCycleEnd
    \/ VolumeFinish

SpecStartup == InitStartup /\ [][NextStartup]_vars

\* --------------------------------------------------- the signed client
\* the files with a signed client; mode names the file a call is made in
ClientScripts == {"normal", "log", "volume", "cancel"}

\* calls of the client that one run makes, one after the other
MaxCalls == 2

\* Python values: None, True and False, a list by its length, and a dict by
\* what .get('code') gives
PyNone == [t |-> "None", code |-> None, len |-> 0]
PyBool(b) == [t |-> IF b THEN "True" ELSE "False", code |-> None, len |-> 0]
PyList(n) == [t |-> "list", code |-> None, len |-> n]
PyDict(code) == [t |-> "dict", code |-> code, len |-> 1]
\* the text of a response that is not JSON
NotJson == [t |-> "text", code |-> None, len |-> 0]

\* how a function ends: with a value, or with an exception it lets through
Returned(v) == [raised |-> None, value |-> v]
Raised(e) == [raised |-> Some(e), value |-> PyNone]

\* the value under 'serverTime': absent, null, a number, a string
TimeAbsent == [t |-> "absent", v |-> <<>>]
TimeNull == [t |-> "null", v |-> <<>>]
ServerTimes == {1000, 2000}
TimeValues ==
    {TimeAbsent, TimeNull, [t |-> "str", v |-> <<"s", "o", "o", "n">>],
     [t |-> "str", v |-> IntChars(2000)]}
        \cup { [t |-> "int", v |-> IntChars(n)] : n \in ServerTimes }

\* the answers to GET /fapi/v1/time: no answer, an error status, a body
\* that is not JSON, a JSON object
TimeAnswers ==
    { [kind |-> k, serverTime |-> TimeAbsent] :
          k \in {"transport_error", "http_error", "not_json"} }
        \cup { [kind |-> "json", serverTime |-> tv] : tv \in TimeValues }

\* the answers to a signed request: no answer, or a status and a body. An
\* error status comes with text or with the exchange's error record
Bodies == {NotJson, PyList(0), PyList(2), PyDict(None), PyDict(Some(200)), PyDict(Some(-2011))}
ErrorBodies == {NotJson, PyDict(Some(-2011))}
Answers ==
    { [kind |-> "transport_error", status |-> 0, body |-> NotJson] }
        \cup { [kind |-> "response", status |-> 200, body |-> b] : b \in Bodies }
        \cup { [kind |-> "response", status |-> st, body |-> b] :
                   st \in {400, 500}, b \in ErrorBodies }

\* get_server_time. json_error_caught: response.json() raises an exception
\* that is a RequestException (requests 2.27 and later) or one that is not
get_server_time(script, answer, json_error_caught) ==
    IF answer.kind \in {"transport_error", "http_error"}
    THEN [raised |-> None, value |-> TimeNull]
    ELSE IF answer.kind = "not_json"
    THEN IF script = "normal" /\ ~json_error_caught
         THEN [raised |-> Some("JSONDecodeError"), value |-> TimeNull]
         ELSE [raised |-> None, value |-> TimeNull]
    ELSE IF answer.serverTime = TimeAbsent
    THEN IF script = "normal"
         THEN [raised |-> Some("KeyError"), value |-> TimeNull]
         ELSE [raised |-> None, value |-> TimeNull]
    ELSE [raised |-> None, value |-> answer.serverTime]

\* int(t): the number, or None for the ValueError of a string that spells none
IntOf(t) ==
    IF t.v # <<>> /\ \A i \in 1..Len(t.v) : IsDigit(t.v[i])
    THEN Some(BToInt(BTrim(DigitsCoef(t.v, <<>>))))
    ELSE None

\* params_for_signing['timestamp'] = int(api_server_time_ms)
request_timestamp(t) == Val(IntOf(t))

\* the methods make_signed_request has a branch for
SupportedMethods(script) ==
    IF script = "cancel" THEN {"DELETE"} ELSE {"GET", "POST", "DELETE"}

\* make_signed_request after the request was answered
signed_response(script, answer, json_error_caught) ==
    IF answer.kind = "transport_error" THEN Returned(PyNone)
    ELSE IF answer.status >= 400
    THEN IF script # "cancel" THEN Returned(PyNone)
         ELSE IF answer.body # NotJson THEN Returned(answer.body)
         ELSE IF json_error_caught THEN Returned(PyDict(None))
         ELSE Returned(PyNone)
    ELSE IF answer.body # NotJson THEN Returned(answer.body)
    ELSE IF script = "normal" /\ ~json_error_caught THEN Raised("JSONDecodeError")
    ELSE Returned(PyNone)

\* mutant: an empty list is no success
cancel_succeeded_CodeOnly(r) == r.t = "dict" /\ r.code = Some(200)

\* cancel_all_open_orders: the shapes of the result that count as success
cancel_succeeded(r) ==
    \/ r.t = "dict" /\ r.code = Some(200)
    \/ r.t = "list" /\ r.len = 0

\* mutant: the quantity is rounded up to the lot step
formatted_quantity_RoundUp(quantity) ==
    (DecTruncate(quantity, 0) + 1) * QUANTITY_PRECISION

\* quantity.quantize(QUANTITY_PRECISION, rounding=ROUND_DOWN), in lot steps
formatted_quantity(quantity) ==
    (DecTruncate(quantity, 0) \div QUANTITY_PRECISION) * QUANTITY_PRECISION

\* quantize raises InvalidOperation when the result has more digits than
\* the context's precision
QuantizeFails(d, places) ==
    d.exp + places > 0 /\ BDigits(BShift(d.coef, d.exp + places)) > DecimalPrec

\* place_limit_order: the parameters of the request, None when the
\* formatting raises
limit_order_params(side, quantity, price) ==
    IF QuantizeFails(price, PriceDecimals) \/ QuantizeFails(quantity, 0)
    THEN None
    ELSE Some([side |-> side, type |-> "LIMIT", quantity |-> formatted_quantity(quantity),
               price |-> FormatLevel(price), timeInForce |-> "GTC"])

\* the function that called make_signed_request goes on with its result
caller_result(fn, r) ==
    IF r.raised # None THEN r
    ELSE IF fn = "get_open_orders"
    THEN Returned(IF r.value.t = "list" THEN r.value ELSE PyList(0))
    ELSE IF fn = "cancel_all_open_orders" THEN Returned(PyBool(cancel_succeeded(r.value)))
    ELSE r

\* the status __main__ of cancel_orders_script.py exits with
cancel_script_status(r) ==
    IF r.raised # None THEN 2
    ELSE IF r.value = PyBool(TRUE) THEN 0
    ELSE 1

\* the functions of a file that call make_signed_request, and the function
\* itself; "__main__" is the run of cancel_orders_script.py with arguments
ClientFunctions(script) ==
    IF script = "cancel" THEN {"make_signed_request", "cancel_all_open_orders", "__main__"}
    ELSE IF script = "volume" THEN {"make_signed_request"}
    ELSE {"make_signed_request", "get_open_orders", "place_limit_order",
          "cancel_all_open_orders"}

MethodOf(fn) ==
    IF fn = "get_open_orders" THEN {"GET"}
    ELSE IF fn = "place_limit_order" THEN {"POST"}
    ELSE IF fn = "make_signed_request" THEN {"GET", "POST", "DELETE", "PUT"}
    ELSE {"DELETE"}

\* prices and quantities place_limit_order is called with: on and off the
\* tick and the lot step, and a price too large to quantize
OrderPrices == {DecOfRaw(25), DecOfRaw(69999), Dec(FALSE, <<1>>, 30)}
OrderQuantities == {DecOfInt(3), Dec(FALSE, <<25>>, -1)}
NoDecimal == DecZero

\* the call is over
EndCall(r) ==
    /\ result' = Some(caller_result(IF Val(call).fn = "__main__"
                                     THEN "cancel_all_open_orders" ELSE Val(call).fn, r))
    /\ IF Val(call).fn = "__main__"
       THEN exit_code' = Some(cancel_script_status(caller_result("cancel_all_open_orders", r)))
            /\ pc' = "exited"
       ELSE exit_code' = exit_code /\ pc' = "returned"

clientFrame ==
    <<mode, envVars, USDT_AMOUNT, gridVars, ratio, lvls, grid_levels, ORDER_QTY_PER_GRID,
      loopVars, volVars, appVars>>

\* a function of the client is called
CallFunction ==
    /\ pc = "client"
    /\ \E fn \in ClientFunctions(mode),
          caught \in IF call = None THEN BOOLEAN ELSE {Val(call).json_error_caught} :
       \E method \in MethodOf(fn), side \in Sides :
       \E price \in IF fn = "place_limit_order" THEN OrderPrices ELSE {NoDecimal},
          quantity \in IF fn = "place_limit_order" THEN OrderQuantities ELSE {NoDecimal} :
         /\ side = "BUY" \/ fn = "place_limit_order"
         /\ call' = Some([fn |-> fn, method |-> method, side |-> side, price |-> price,
                          quantity |-> quantity, timestamp |-> 0,
                          json_error_caught |-> caught,
                          n |-> IF call = None THEN 1 ELSE Val(call).n + 1])
         /\ IF fn = "place_limit_order" /\ limit_order_params(side, quantity, price) = None
            THEN result' = Some(Returned(PyNone)) /\ pc' = "returned"
            ELSE IF mode = "cancel" /\ (Missing(API_KEY) \/ Missing(SECRET_KEY))
            THEN /\ result' = Some(caller_result(IF fn = "__main__"
                                                 THEN "cancel_all_open_orders" ELSE fn,
                                                 Returned(PyNone)))
                 /\ pc' = IF fn = "__main__" THEN "exited" ELSE "returned"
            ELSE result' = None /\ pc' = "get_server_time"
         /\ exit_code' = IF fn = "__main__" /\ (Missing(API_KEY) \/ Missing(SECRET_KEY))
                         THEN Some(1) ELSE exit_code
    /\ UNCHANGED <<clientFrame, wire>>

\* cancel_orders_script.py is run without arguments: it prints its help
\* and exits with status 0
CancelScriptHelp ==
    /\ pc = "client"
    /\ mode = "cancel"
    /\ call = None
    /\ call' = Some([fn |-> "__main__", method |-> "NONE", side |-> "BUY", price |-> NoDecimal,
                     quantity |-> NoDecimal, timestamp |-> 0, json_error_caught |-> FALSE,
                     n |-> 0])
    /\ exit_code' = Some(0)
    /\ pc' = "exited"
    /\ UNCHANGED <<clientFrame, wire, result>>

\* make_signed_request from get_server_time() to the request: the time is
\* fetched, the timestamp set, the parameters signed
GetServerTime ==
    /\ pc = "get_server_time"
    /\ \E answer \in TimeAnswers :
         /\ wire' = Append(wire, [req |-> "time", n |-> Val(call).n, answer |-> answer])
         /\ IF get_server_time(mode, answer, Val(call).json_error_caught).raised # None
            THEN EndCall(Raised(Val(get_server_time(mode, answer,
                                                    Val(call).json_error_caught).raised)))
                 /\ call' = call
            ELSE IF get_server_time(mode, answer, Val(call).json_error_caught).value = TimeNull
            THEN EndCall(Returned(PyNone)) /\ call' = call
            ELSE IF IntOf(answer.serverTime) = None
            THEN EndCall(Raised("ValueError")) /\ call' = call
            ELSE IF Missing(SECRET_KEY) \/ Missing(API_KEY)
                    \/ Val(call).method \notin SupportedMethods(mode)
            THEN EndCall(Returned(PyNone)) /\ call' = call
            ELSE /\ call' = Some([Val(call) EXCEPT
                                    !.timestamp = request_timestamp(answer.serverTime)])
                 /\ pc' = "send"
                 /\ UNCHANGED <<result, exit_code>>
    /\ UNCHANGED clientFrame

\* the request is sent and answered, and the functions return
SendRequest ==
    /\ pc = "send"
    /\ \E answer \in Answers :
         /\ wire' = Append(wire,
                [req |-> "signed", n |-> Val(call).n, method |-> Val(call).method,
                 timestamp |-> Val(call).timestamp,
                 params |-> IF Val(call).fn = "place_limit_order"
                            THEN limit_order_params(Val(call).side, Val(call).quantity,
                                                    Val(call).price)
                            ELSE None,
                 answer |-> answer])
         /\ EndCall(signed_response(mode, answer, Val(call).json_error_caught))
    /\ UNCHANGED <<clientFrame, call>>

\* the run goes on to its next call; of the requests made so far the
\* history keeps the fetches of the server time
NextCall ==
    /\ pc = "returned"
    /\ Val(call).n < MaxCalls
    /\ pc' = "client"
    /\ result' = None
    /\ wire' = SelectSeq(wire, LAMBDA e : e.req = "time")
    /\ UNCHANGED <<clientFrame, call, exit_code>>

\* the credentials of cancel_orders_script.py are its arguments, which can
\* be empty; the strategy files have checked theirs before any call
InitClient ==
    /\ mode \in ClientScripts
    /\ API_KEY \in (IF mode = "cancel" THEN {Some(<<>>), Present} ELSE {Present})
    /\ SECRET_KEY \in (IF mode = "cancel" THEN {Some(<<>>), Present} ELSE {Present})
    /\ TARGET_SYMBOL = Present
    /\ USDT_AMOUNT_STR = Some(IntChars(UsdtAmount))
    /\ USDT_AMOUNT = Val(ParseDecimal(Val(USDT_AMOUNT_STR)))
    /\ upper_p = 0 /\ lower_p = 0 /\ num_g = 0
    /\ ratio = DecOfInt(1)
    /\ lvls = <<>>
    /\ grid_levels = <<>>
    /\ ORDER_QTY_PER_GRID = 0
    /\ exit_code = None
    /\ pc = "client"
    /\ LoopInit
    /\ NoIterations /\ NoCall /\ NoControlPlane

NextClient ==
    \/ CallFunction
    \/ CancelScriptHelp
    \/ GetServerTime
    \/ SendRequest
    \/ NextCall

SpecClient == InitClient /\ [][NextClient]_vars

\* --------------------------------------------------- the control plane
\* the wallets the requests are made for
Wallets == {"0xW", "0xV"}

\* the wallet of a client that has a wallet of its own
WalletOf(t) == IF t = 1 THEN "0xW" ELSE "0xV"

\* strategy processes one run of the control plane launches
MaxProcesses == 2

\* the request handlers that run at the same time: the server handles each
\* request in a thread of its own, and two are enough to interleave
Threads == {1, 2}
Endpoints == {"start_strategy", "stop_strategy", "withdraw", "status"}

Idle == [op |-> "idle", pc |-> "idle", wallet |-> "", pid |-> 0,
         cancel_status |-> "not_attempted"]

\* a child process as the control plane sees it, the signals sent to it so
\* far, and the wallet it was started for
Started(wallet) == [state |-> "alive", signals |-> <<>>, wallet |-> wallet]
is_alive(pid) == processes[pid].state = "alive"
AliveProcesses == { p \in 1..Len(processes) : is_alive(p) }

\* running_strategies without an entry, and with one
Untrack(tracking, wallet) == [w \in DOMAIN tracking \ {wallet} |-> tracking[w]]
Track(tracking, wallet, pid) ==
    [w \in DOMAIN tracking \cup {wallet} |-> IF w = wallet THEN pid ELSE tracking[w]]

\* mutant: a confirmed termination is a success whatever the cancellation
final_success_IgnoresCancel(cancel_orders, cancel_status, process_terminated) ==
    process_terminated

\* Step 4 of stop_strategy_process
final_success(cancel_orders, cancel_status, process_terminated) ==
    IF ~process_terminated THEN FALSE
    ELSE IF cancel_orders THEN cancel_status = "success"
    ELSE TRUE

\* the message of a stop names a process as "terminated or already stopped"
MessageSaysStopped(process_terminated) == process_terminated

\* the HTTP status of stop_strategy
stop_status_code(success, process_terminated) ==
    IF success THEN 200
    ELSE IF MessageSaysStopped(process_terminated) THEN 404
    ELSE 500

\* the HTTP status of withdraw_strategy
withdraw_status_code(success, process_terminated, cancel_status) ==
    IF success THEN 200
    ELSE IF MessageSaysStopped(process_terminated) THEN 404
    ELSE IF cancel_status \in {"failed_no_keys", "failed_no_script"} THEN 400
    ELSE 500

\* how the run of cancel_orders_script.py can end
CancelStatuses == {"success", "failed_no_keys", "failed_script_error_1", "failed_timeout"}

\* the orders one tick of the strategy places for a price and the open
\* orders the exchange reports
TickOrders(price, open) ==
    { place_limit_order(GapSide(mode, QuantizeHalfEven(grid_levels[i]), price, open),
                        ORDER_QTY_PER_GRID, QuantizeHalfEven(grid_levels[i])) :
          i \in { j \in 1..Len(grid_levels) :
                      GapSide(mode, QuantizeHalfEven(grid_levels[j]), price, open)
                          # "NONE" } }

appFrame == <<planVars, pc, tickVars, order_count, histVars, interrupted, volVars, clientVars,
              storeVars>>

\* the handler returns its response
Respond(t, r) ==
    /\ threads' = [threads EXCEPT ![t] = [Idle EXCEPT !.op = r.op, !.pc = "return"]]
    /\ responses' = [responses EXCEPT ![t] = Some(r)]

Response(op, code, pid, cancel_status, termination_status) ==
    [op |-> op, code |-> code, pid |-> pid, cancel_status |-> cancel_status,
     termination_status |-> termination_status]

\* starts requested and not yet answered
StartsInFlight == { t \in Threads : threads[t].op = "start_strategy" }

\* a request for a wallet arrives and a thread begins to handle it
Request(t, w) ==
    /\ threads[t].op = "idle"
    /\ \E op \in Endpoints :
         /\ op = "start_strategy" =>
                Len(processes) + Cardinality(StartsInFlight) < MaxProcesses
         /\ threads' = [threads EXCEPT ![t] = [Idle EXCEPT !.op = op, !.pc = "begin",
                                                            !.wallet = w]]
    /\ UNCHANGED <<appFrame, book, running_strategies, processes, responses>>

\* the response has been sent and the thread is free again
Return(t) ==
    /\ threads[t].pc = "return"
    /\ threads' = [threads EXCEPT ![t] = Idle]
    /\ responses' = [responses EXCEPT ![t] = None]
    /\ UNCHANGED <<appFrame, book, running_strategies, processes>>

\* start_strategy: a field is missing, the amount is not a positive number
\* or the strategy is not known
StartInvalid(t) ==
    /\ threads[t].op = "start_strategy" /\ threads[t].pc = "begin"
    /\ Respond(t, Response("start_strategy", 400, 0, "na", "na"))
    /\ UNCHANGED <<appFrame, book, running_strategies, processes>>

\* start_strategy: "Check if already running", then the API keys
StartCheck(t) ==
    /\ threads[t].op = "start_strategy" /\ threads[t].pc = "begin"
    /\ IF threads[t].wallet \in DOMAIN running_strategies
          /\ is_alive(running_strategies[threads[t].wallet])
       THEN /\ Respond(t, Response("start_strategy", 409, 0, "na", "na"))
            /\ UNCHANGED running_strategies
       ELSE /\ running_strategies' = Untrack(running_strategies, threads[t].wallet)
            /\ \E registered \in BOOLEAN :
                 IF registered
                 THEN /\ threads' = [threads EXCEPT ![t].pc = "start_process"]
                      /\ UNCHANGED responses
                 ELSE Respond(t, Response("start_strategy", 404, 0, "na", "na"))
    /\ UNCHANGED <<appFrame, book, processes>>

\* start_strategy_process: the child is started, or the start fails
StartProcess(t) ==
    /\ threads[t].pc = "start_process"
    /\ \E started \in BOOLEAN :
         IF started
         THEN /\ processes' = Append(processes, Started(threads[t].wallet))
              /\ threads' = [threads EXCEPT ![t].pc = "track", ![t].pid = Len(processes) + 1]
              /\ UNCHANGED responses
         ELSE /\ Respond(t, Response("start_strategy", 500, 0, "na", "na"))
              /\ UNCHANGED processes
    /\ UNCHANGED <<appFrame, book, running_strategies>>

\* mutant: the start is accepted and the process is not tracked
StartTrack_AnswersOnly(t) ==
    /\ threads[t].pc = "track"
    /\ Respond(t, Response("start_strategy", 202, threads[t].pid, "na", "na"))
    /\ UNCHANGED <<appFrame, book, running_strategies, processes>>

\* start_strategy: running_strategies[wallet_address] = (process, ...), 202
StartTrack(t) ==
    /\ threads[t].pc = "track"
    /\ running_strategies' = Track(running_strategies, threads[t].wallet, threads[t].pid)
    /\ Respond(t, Response("start_strategy", 202, threads[t].pid, "na", "na"))
    /\ UNCHANGED <<appFrame, book, processes>>

\* mutant: Step 3 empties the tracking table
Finish_ForgetsAll(t, process_terminated, termination_status) ==
    /\ running_strategies' = <<>>
    /\ Respond(t, Response(threads[t].op,
                  IF threads[t].op = "withdraw"
                  THEN withdraw_status_code(
                           final_success(TRUE, threads[t].cancel_status, process_terminated),
                           process_terminated, threads[t].cancel_status)
                  ELSE stop_status_code(
                           final_success(FALSE, threads[t].cancel_status, process_terminated),
                           process_terminated),
                  threads[t].pid, threads[t].cancel_status, termination_status))

\* stop_strategy_process, Steps 3 and 4, and the response of the endpoint
Finish(t, process_terminated, termination_status) ==
    /\ running_strategies' = Untrack(running_strategies, threads[t].wallet)
    /\ Respond(t, Response(threads[t].op,
                  IF threads[t].op = "withdraw"
                  THEN withdraw_status_code(
                           final_success(TRUE, threads[t].cancel_status, process_terminated),
                           process_terminated, threads[t].cancel_status)
                  ELSE stop_status_code(
                           final_success(FALSE, threads[t].cancel_status, process_terminated),
                           process_terminated),
                  threads[t].pid, threads[t].cancel_status, termination_status))

\* stop_strategy_process: the wallet is looked up in running_strategies
StopLookup(t) ==
    /\ threads[t].op \in {"stop_strategy", "withdraw"} /\ threads[t].pc = "begin"
    /\ IF threads[t].wallet \notin DOMAIN running_strategies
       THEN Respond(t, Response(threads[t].op, 404, 0, "na", "na"))
       ELSE /\ threads' = [threads EXCEPT
                             ![t].pid = running_strategies[threads[t].wallet],
                             ![t].pc = IF threads[t].op = "withdraw"
                                       THEN "cancel" ELSE "terminate"]
            /\ UNCHANGED responses
    /\ UNCHANGED <<appFrame, book, running_strategies, processes>>

\* Step 1: cancel_orders_script.py is run and waited for. With status 0 the
\* exchange has cancelled the open orders of the symbol; a run that timed
\* out may have got its request through
CancelOrders(t) ==
    /\ threads[t].pc = "cancel"
    /\ \E cs \in CancelStatuses :
         /\ threads' = [threads EXCEPT ![t].cancel_status = cs, ![t].pc = "terminate"]
         /\ book' \in IF cs = "success" THEN {EmptyBag}
                      ELSE IF cs = "failed_timeout" THEN {book, EmptyBag}
                      ELSE {book}
    /\ UNCHANGED <<appFrame, running_strategies, processes, responses>>

\* os.kill(pid, sig)
Signal(pid, sig) ==
    processes' = [processes EXCEPT ![pid].signals = Append(@, sig)]

\* a process that has ended
Exited(process) == [process EXCEPT !.state = "exited", !.signals = <<>>]

\* the process ends between is_alive() and os.kill, which raises
\* ProcessLookupError: "already exited"
KillFindsNoProcess(t) ==
    /\ processes' = [processes EXCEPT ![threads[t].pid] = Exited(@)]
    /\ Finish(t, TRUE, "already_exited")

\* Step 2: a process that is alive is sent SIGTERM
Terminate(t) ==
    /\ threads[t].pc = "terminate"
    /\ IF is_alive(threads[t].pid)
       THEN \/ /\ Signal(threads[t].pid, "SIGTERM")
               /\ threads' = [threads EXCEPT ![t].pc = "join"]
               /\ UNCHANGED <<running_strategies, responses>>
            \/ KillFindsNoProcess(t)
       ELSE /\ Finish(t, TRUE, "already_stopped")
            /\ UNCHANGED processes
    /\ UNCHANGED <<appFrame, book>>

\* mutant: SIGKILL is sent whether or not the process has gone
JoinTerm_KillsAnyway(t) ==
    /\ threads[t].pc = "join"
    /\ Signal(threads[t].pid, "SIGKILL")
    /\ threads' = [threads EXCEPT ![t].pc = "join_kill"]
    /\ UNCHANGED <<running_strategies, responses>>
    /\ UNCHANGED <<appFrame, book>>

\* process.join(timeout=10) is over: a process still alive is sent SIGKILL
JoinTerm(t) ==
    /\ threads[t].pc = "join"
    /\ IF is_alive(threads[t].pid)
       THEN \/ /\ Signal(threads[t].pid, "SIGKILL")
               /\ threads' = [threads EXCEPT ![t].pc = "join_kill"]
               /\ UNCHANGED <<running_strategies, responses>>
            \/ KillFindsNoProcess(t)
       ELSE /\ Finish(t, TRUE, "success")
            /\ UNCHANGED processes
    /\ UNCHANGED <<appFrame, book>>

\* process.join(timeout=2) is over
JoinKill(t) ==
    /\ threads[t].pc = "join_kill"
    /\ IF is_alive(threads[t].pid)
       THEN Finish(t, FALSE, "failed_unkillable")
       ELSE Finish(t, TRUE, "success")
    /\ UNCHANGED <<appFrame, book, processes>>

\* mutant: a tracked wallet is reported as running
StatusRequest_TrackedIsRunning(t) ==
    /\ threads[t].op = "status" /\ threads[t].pc = "begin"
    /\ IF threads[t].wallet \in DOMAIN running_strategies
       THEN Respond(t, Response("status", 200,
                                running_strategies[threads[t].wallet], "na", "running"))
       ELSE Respond(t, Response("status", 200, 0, "na", "stopped"))
    /\ UNCHANGED <<appFrame, book, running_strategies, processes>>

\* get_strategy_status: a tracked process found dead is dropped
StatusRequest(t) ==
    /\ threads[t].op = "status" /\ threads[t].pc = "begin"
    /\ IF threads[t].wallet \in DOMAIN running_strategies
       THEN IF is_alive(running_strategies[threads[t].wallet])
            THEN /\ Respond(t, Response("status", 200,
                                        running_strategies[threads[t].wallet], "na", "running"))
                 /\ UNCHANGED running_strategies
            ELSE /\ Respond(t, Response("status", 200, 0, "na", "stopped"))
                 /\ running_strategies' = Untrack(running_strategies, threads[t].wallet)
       ELSE /\ Respond(t, Response("status", 200, 0, "na", "stopped"))
            /\ UNCHANGED running_strategies
    /\ UNCHANGED <<appFrame, book, processes>>

\* a request for the statuses of all wallets arrives
RequestAll(t) ==
    /\ threads[t].op = "idle"
    /\ threads' = [threads EXCEPT ![t] = [Idle EXCEPT !.op = "status_all", !.pc = "begin"]]
    /\ UNCHANGED <<appFrame, book, running_strategies, processes, responses>>

\* the tracked wallets whose process is not alive
DeadTracked ==
    { w \in DOMAIN running_strategies : ~is_alive(running_strategies[w]) }

\* get_all_statuses: every tracked wallet is reported, a tracked process
\* found dead is dropped, and the registered wallets that are not tracked
\* are reported as stopped
get_all_statuses(t) ==
    /\ threads[t].op = "status_all" /\ threads[t].pc = "begin"
    /\ running_strategies' =
           [w \in DOMAIN running_strategies \ DeadTracked |-> running_strategies[w]]
    /\ threads' = [threads EXCEPT ![t] = [Idle EXCEPT !.op = "status_all", !.pc = "return"]]
    /\ \E all_registered_users \in SUBSET Wallets :
         responses' = [responses EXCEPT ![t] =
             Some([op |-> "status_all", code |-> 200,
                   statuses |-> [w \in DOMAIN running_strategies \cup all_registered_users |->
                                    IF w \in DOMAIN running_strategies \ DeadTracked
                                    THEN "running" ELSE "stopped"]])]
    /\ UNCHANGED <<appFrame, book, processes>>

\* the price the ticker reports to the strategy processes: just below the
\* highest level of the plan
TickPrices == {grid_levels[1] - PRICE_PRECISION \div SubTicks}

\* a tick of a strategy process places the orders its plan misses
StrategyTick(pid) ==
    /\ is_alive(pid)
    /\ \E price \in TickPrices :
         /\ TickOrders(price, ParseOpenOrders(mode, OpenOrdersList(BagToSet(book)))) # {}
         /\ book' = book (+) SetToBag(TickOrders(price, ParseOpenOrders(mode, OpenOrdersList(BagToSet(book)))))
    /\ UNCHANGED <<appFrame, appVars>>

\* a strategy process ends: by a signal, by sys.exit, or by finishing; the
\* signals sent to it are kept while it lives
ProcessExits(pid) ==
    /\ is_alive(pid)
    /\ processes' = [processes EXCEPT ![pid] = Exited(@)]
    /\ UNCHANGED <<appFrame, book, running_strategies, threads, responses>>

\* the control plane after its start, with the log grid as the strategy
InitApp ==
    /\ mode = "log"
    /\ API_KEY = Present /\ SECRET_KEY = Present /\ TARGET_SYMBOL = Present
    /\ USDT_AMOUNT_STR = Some(IntChars(UsdtAmount))
    /\ USDT_AMOUNT = Val(ParseDecimal(Val(USDT_AMOUNT_STR)))
    /\ upper_p = DEFAULT_UPPER_PRICE(mode)
    /\ lower_p = DEFAULT_LOWER_PRICE
    /\ num_g = DEFAULT_NUM_GRIDS
    /\ ratio \in Ratios(mode, upper_p, lower_p, num_g)
    /\ lvls = Levels(mode, upper_p, lower_p, num_g, ratio)
    /\ grid_levels = calculate_grid_levels(mode, upper_p, lower_p, num_g, ratio)
    /\ ORDER_QTY_PER_GRID = calculated_order_qty(USDT_AMOUNT, upper_p, lower_p, num_g)
    /\ exit_code = None
    /\ pc = "control_plane"
    /\ LoopInit
    /\ NoIterations /\ NoCall
    /\ running_strategies = <<>>
    /\ processes = <<>>
    /\ threads = [t \in Threads |-> Idle]
    /\ responses = [t \in Threads |-> None]
    /\ USER_DATA_FILE = <<>>
    /\ registrations = <<>>

NextApp ==
    \/ \E t \in Threads : Request(t, "0xW")
    \/ \E t \in Threads : Return(t)
    \/ \E t \in Threads : StartInvalid(t)
    \/ \E t \in Threads : StartCheck(t)
    \/ \E t \in Threads : StartProcess(t)
    \/ \E t \in Threads : StartTrack(t)
    \/ \E t \in Threads : StopLookup(t)
    \/ \E t \in Threads : CancelOrders(t)
    \/ \E t \in Threads : Terminate(t)
    \/ \E t \in Threads : JoinTerm(t)
    \/ \E t \in Threads : JoinKill(t)
    \/ \E t \in Threads : StatusRequest(t)
    \/ \E p \in 1..Len(processes) : StrategyTick(p)
    \/ \E p \in 1..Len(processes) : ProcessExits(p)

SpecApp == InitApp /\ [][NextApp]_vars

\* the control plane with two clients, each with a wallet of its own
NextWallets ==
    \/ \E t \in Threads : Request(t, WalletOf(t))
    \/ \E t \in Threads : RequestAll(t)
    \/ \E t \in Threads : get_all_statuses(t)
    \/ \E t \in Threads : Return(t)
    \/ \E t \in Threads : StartInvalid(t)
    \/ \E t \in Threads : StartCheck(t)
    \/ \E t \in Threads : StartProcess(t)
    \/ \E t \in Threads : StartTrack(t)
    \/ \E t \in Threads : StopLookup(t)
    \/ \E t \in Threads : CancelOrders(t)
    \/ \E t \in Threads : Terminate(t)
    \/ \E t \in Threads : JoinTerm(t)
    \/ \E t \in Threads : JoinKill(t)
    \/ \E t \in Threads : StatusRequest(t)
    \/ \E p \in 1..Len(processes) : StrategyTick(p)
    \/ \E p \in 1..Len(processes) : ProcessExits(p)

SpecWallets == InitApp /\ [][NextWallets]_vars

\* -------------------------------------------------- the registered keys
\* the credentials a client registers: an API key with its secret key
ApiKeys == {"k1", "k2"}

NoRegistration == [pc |-> "idle", wallet_address |-> "", api_key |-> "", users |-> <<>>,
                   code |-> 0]

\* load_user_api_keys: the rows of the file; an exception while the file
\* is opened or read is caught and the rows read so far are returned, none
\* if it is raised before the first row
load_user_api_keys(file, readable) == IF readable THEN file ELSE <<>>

\* users[wallet_address] = {'api_key': ..., 'secret_key': ...}
PutUser(users, wallet_address, api_key) ==
    [w \in DOMAIN users \cup {wallet_address} |->
        IF w = wallet_address THEN api_key ELSE users[w]]

registerFrame == <<planVars, pc, tickVars, book, order_count, histVars, interrupted, volVars,
                   clientVars, running_strategies, processes, threads, responses>>

\* a request to /register arrives and a thread begins to handle it
RegisterRequest(t) ==
    /\ registrations[t].pc = "idle"
    /\ \E w \in Wallets, k \in ApiKeys :
         registrations' = [registrations EXCEPT ![t] =
             [NoRegistration EXCEPT !.pc = "begin", !.wallet_address = w, !.api_key = k]]
    /\ UNCHANGED <<registerFrame, USER_DATA_FILE>>

\* register_keys: a field is missing or is not a string of ten characters
RegisterInvalid(t) ==
    /\ registrations[t].pc = "begin"
    /\ registrations' = [registrations EXCEPT ![t].pc = "return", ![t].code = 400]
    /\ UNCHANGED <<registerFrame, USER_DATA_FILE>>

\* save_user_api_key: users = load_user_api_keys(), then the new entry
RegisterLoad(t) ==
    /\ registrations[t].pc = "begin"
    /\ \E readable \in BOOLEAN :
         registrations' = [registrations EXCEPT
             ![t].pc = "save",
             ![t].users = PutUser(load_user_api_keys(USER_DATA_FILE, readable),
                                  registrations[t].wallet_address, registrations[t].api_key)]
    /\ UNCHANGED <<registerFrame, USER_DATA_FILE>>

\* save_user_api_key: the file is opened in mode 'w' and users is written
\* to it; register_keys answers 201, or 500 when the write raised, which
\* can leave the file as it was or emptied
RegisterSave(t) ==
    /\ registrations[t].pc = "save"
    /\ \E written \in BOOLEAN :
         IF written
         THEN /\ USER_DATA_FILE' = registrations[t].users
              /\ registrations' = [registrations EXCEPT ![t].pc = "return", ![t].code = 201]
         ELSE /\ USER_DATA_FILE' \in {USER_DATA_FILE, <<>>}
              /\ registrations' = [registrations EXCEPT ![t].pc = "return", ![t].code = 500]
    /\ UNCHANGED registerFrame

\* the response has been sent
RegisterReturn(t) ==
    /\ registrations[t].pc = "return"
    /\ registrations' = [registrations EXCEPT ![t] = NoRegistration]
    /\ UNCHANGED <<registerFrame, USER_DATA_FILE>>

\* the control plane after its start, with no user data file
InitRegister ==
    /\ mode = "log"
    /\ API_KEY = Present /\ SECRET_KEY = Present /\ TARGET_SYMBOL = Present
    /\ USDT_AMOUNT_STR = Some(IntChars(UsdtAmount))
    /\ USDT_AMOUNT = Val(ParseDecimal(Val(USDT_AMOUNT_STR)))
    /\ upper_p = DEFAULT_UPPER_PRICE(mode)
    /\ lower_p = DEFAULT_LOWER_PRICE
    /\ num_g = DEFAULT_NUM_GRIDS
    /\ ratio \in Ratios(mode, upper_p, lower_p, num_g)
    /\ lvls = Levels(mode, upper_p, lower_p, num_g, ratio)
    /\ grid_levels = calculate_grid_levels(mode, upper_p, lower_p, num_g, ratio)
    /\ ORDER_QTY_PER_GRID = calculated_order_qty(USDT_AMOUNT, upper_p, lower_p, num_g)
    /\ exit_code = None
    /\ pc = "control_plane"
    /\ LoopInit
    /\ NoIterations /\ NoCall
    /\ running_strategies = <<>>
    /\ processes = <<>>
    /\ threads = [t \in Threads |-> Idle]
    /\ responses = [t \in Threads |-> None]
    /\ USER_DATA_FILE = <<>>
    /\ registrations = [t \in Threads |-> NoRegistration]

NextRegister ==
    \/ \E t \in Threads : RegisterRequest(t)
    \/ \E t \in Threads : RegisterInvalid(t)
    \/ \E t \in Threads : RegisterLoad(t)
    \/ \E t \in Threads : RegisterSave(t)
    \/ \E t \in Threads : RegisterReturn(t)

SpecRegister == InitRegister /\ [][NextRegister]_vars

\* ------------------------------------------------- what the claims speak of
RUNNING == pc \in InTry \cup {"tick_sleep"}
STOPPED == pc \in {"stopped", "crashed"}

PlanLevels == { grid_levels[i] : i \in 1..Len(grid_levels) }

SubmittedOrders == { submitted[i].order : i \in 1..Len(submitted) }

Order(s, l) == [side |-> s, price |-> l, qty |-> ORDER_QTY_PER_GRID]

\* the orders a tick owes for a price and a snapshot, as a set
ExpectedOrders(price, open) ==
    { Order("BUY", l) : l \in {x \in PlanLevels : x < price /\ x \notin open["BUY"]} }
        \cup { Order("SELL", l) : l \in {x \in PlanLevels : x > price /\ x \notin open["SELL"]} }

RECURSIVE ExpectedFrom(_, _, _)
\* the same orders in plan order, from plan position i on
ExpectedFrom(i, price, open) ==
    IF i > Len(grid_levels) THEN <<>>
    ELSE LET l == grid_levels[i]
         IN  (IF l < price /\ l \notin open["BUY"] THEN <<Order("BUY", l)>>
              ELSE IF l > price /\ l \notin open["SELL"] THEN <<Order("SELL", l)>>
              ELSE <<>>) \o ExpectedFrom(i + 1, price, open)

ExpectedSeq == ExpectedFrom(1, Val(current_price), open_order_prices)

\* C1: the exchange never holds two resting orders of the strategy at the
\* same price level on the same side.
C1_NoDuplicateRestingOrders ==
    \A o \in BagToSet(book) : CopiesIn(o, book) <= 1

\* C2: a tick that follows a completed, fully accepted tick and observes the
\* same price and the previous snapshot plus the orders that tick placed
\* submits no order.
C2_SecondTickPlacesNothing ==
    (/\ pc \in {"levels", "pause"}
     /\ last_complete # None
     /\ Val(current_price) = Val(last_complete).price
     /\ open_order_prices = Val(last_complete).open)
        => submitted = <<>>

C2_Witness ==
    /\ pc = "levels" /\ idx > Len(grid_levels)
    /\ fetch_state = "ok"
    /\ last_complete # None
    /\ Val(last_complete).placed > 0
    /\ Val(current_price) = Val(last_complete).price
    /\ open_order_prices = Val(last_complete).open
    /\ submitted = <<>>

\* C3: a completed tick whose fetches succeeded and whose submissions were
\* all accepted has submitted exactly a BUY at every plan level below the
\* price with no open BUY and a SELL at every plan level above the price
\* with no open SELL, each once, with the plan quantity, and no level got
\* both sides.
C3_TickSubmitsExactlyTheGaps ==
    (tick_state = "complete" /\ fetch_state = "ok" /\ AllAccepted)
        => /\ SubmittedOrders = ExpectedOrders(Val(current_price), open_order_prices)
           /\ \A i, j \in 1..Len(submitted) :
                  i # j => submitted[i].order.price # submitted[j].order.price

C3_Witness ==
    /\ tick_state = "complete" /\ fetch_state = "ok" /\ AllAccepted
    /\ \E l \in open_order_prices["BUY"] : l \in PlanLevels /\ l < Val(current_price)
    /\ \E i, j \in 1..Len(submitted) :
           submitted[i].order.side = "BUY" /\ submitted[j].order.side = "SELL"

\* C4: no order is submitted at a level equal to the current price rounded
\* down to the price tick.
C4_NoOrderAtQuantizedPrice ==
    \A i \in 1..Len(submitted) :
        submitted[i].order.price # QuantizeDown(Val(current_price))

\* C5: a tick whose open-orders fetch failed submits no order.
C5_NoOrderAfterFailedFetch ==
    fetch_state = "failed" => submitted = <<>>

C7_PriceFailureSkipsTick ==
    tick_state = "price_failed"
        => /\ current_price = None
           /\ fetch_state = "none"
           /\ submitted = <<>>
           /\ \/ pc = "retry_sleep" /\ sleeps = 0
              \/ pc = "tick_start" /\ sleeps = 1
              \/ pc = "stopped" /\ interrupted

C7_Witness ==
    tick_state = "price_failed" /\ pc = "tick_start" /\ sleeps = 1 /\ ~interrupted

\* C8: the loop is RUNNING or STOPPED, only an interrupt takes it to
\* STOPPED, and no level is submitted twice in one tick.
C8_OnlyInterruptStops ==
    /\ RUNNING \/ STOPPED
    /\ STOPPED => interrupted
    /\ \A i, j \in 1..Len(submitted) :
           i # j => submitted[i].order.price # submitted[j].order.price

C8_Witness ==
    /\ RUNNING /\ ~interrupted
    /\ pc = "tick_start"
    /\ tick_state = "complete"
    /\ fetch_state = "failed"
    /\ \E i \in 1..Len(submitted) : ~submitted[i].ok

\* C9 as stated: when the loop has stopped on an interrupt, the tick it was
\* in has submitted every order it owed for its price and snapshot.
C9_InterruptedTickFinishes ==
    (pc = "stopped" /\ fetch_state # "none")
        => SubmittedOrders = ExpectedOrders(Val(current_price), open_order_prices)

\* C9 as amended: the interrupt ends the tick where it arrives: the orders
\* the tick has submitted are a prefix, in plan order, of the orders it owed,
\* and nothing is submitted once the interrupt is delivered.
C9_InterruptCutsTheTick ==
    /\ []((pc = "stopped" /\ fetch_state # "none")
            => /\ Len(submitted) <= Len(ExpectedSeq)
               /\ \A i \in 1..Len(submitted) : submitted[i].order = ExpectedSeq[i])
    /\ [][interrupted => submitted' = submitted]_vars

C9_Witness ==
    /\ pc = "stopped" /\ fetch_state = "ok"
    /\ Len(submitted) > 0
    /\ Len(submitted) < Len(ExpectedSeq)

\* C10: an interrupt delivered at any point of the loop is caught by the
\* loop's handler, which breaks out of the loop.
C10_InterruptAlwaysHandled ==
    interrupted => pc = "stopped"

\* C11: the loop sends no cancel request: only the exchange takes an order
\* off the book (a fill), so every other step, the one that reaches STOPPED
\* included, leaves every resting order resting, whichever side of the
\* price it is on.
C11_LoopNeverCancels ==
    [][ExchangeRemoves \/ \A o \in BagToSet(book) : CopiesIn(o, book') >= CopiesIn(o, book)]_vars

C11_Witness ==
    /\ pc = "stopped"
    /\ current_price # None
    /\ \E o \in BagToSet(book) : o.side = "BUY" /\ o.price > Val(current_price)

\* ---------------------------------------------- claims about startup
\* the positions of a grid strategy before the first tick of its loop
StartupPositions == {"validate", "sizing", "calculate", "format", "check_levels"}

\* the positions of the volume strategy's loop
VolumeLoop ==
    {"volume_buy", "volume_poll_buy", "volume_sell", "volume_poll_sell",
     "volume_cycle_end"}

\* no request that places an order has been sent
NoOrderSent == submitted = <<>> /\ order_count = 0 /\ book = EmptyBag

\* the process has not reached its loop, has sent no order, and has left,
\* if it has left, with a status that is not 0
AbortsAtStartup ==
    /\ pc \in StartupPositions \cup {"exited"}
    /\ pc = "exited" => exit_code # None /\ Val(exit_code) # 0
    /\ NoOrderSent

\* the budget of the environment is a number, and that number
BudgetGiven == ~Missing(USDT_AMOUNT_STR) /\ ParseDecimal(Val(USDT_AMOUNT_STR)) # None
Budget == Val(ParseDecimal(Val(USDT_AMOUNT_STR)))

\* the per-level quantity is defined: a number is divided by a positive
\* count and a positive average price
SizingDefined == BudgetGiven /\ num_g > 0 /\ lower_p + upper_p > 0

\* q * N * (L + U), which is q * N * avg_price * 2, without rounding
TwiceCostOf(q) == DecMul(DecOfInt(q * num_g), DecOfRaw(lower_p + upper_p))

\* (B / N) / avg_price is less than one quantity step
QuantityRoundsToZero ==
    DecCmp(DecMul(DecOfInt(2), Budget), TwiceCostOf(QUANTITY_PRECISION)) < 0

\* quantity x price
Notional(q, p) == DecMul(DecOfInt(q), DecOfRaw(p))
MeetsMinimum(q, p) == DecCmp(Notional(q, p), DecOfInt(MIN_NOTIONAL_VALUE)) >= 0

\* the per-level quantity of the budget at the lower bound is worth less
\* than the exchange's minimum
NotionalBelowMinimum ==
    ~MeetsMinimum(calculated_order_qty(Budget, upper_p, lower_p, num_g), lower_p)

\* the level calculation returns no level: its guards reject the
\* parameters, or it has returned and grid_levels is empty
EmptyLevelSet ==
    \/ InvalidGridParameters(mode, upper_p, lower_p, num_g)
    \/ pc \notin {"validate", "sizing", "calculate", "format"} /\ grid_levels = <<>>

InvalidStartupConfiguration ==
    \/ Missing(API_KEY) \/ Missing(SECRET_KEY) \/ Missing(TARGET_SYMBOL)
    \/ ~BudgetGiven
    \/ DecCmp(Budget, DecZero) <= 0
    \/ SizingDefined /\ QuantityRoundsToZero
    \/ SizingDefined /\ NotionalBelowMinimum
    \/ EmptyLevelSet

\* C12: a grid strategy started with an invalid configuration (a missing
\* key, secret or symbol; a budget that is missing, not a number or not
\* positive; a per-level quantity that rounds to zero; a notional below the
\* minimum; an empty level set) never reaches its loop, sends no order, and
\* leaves with a status that is not 0.
C12_InvalidStartupPlacesNoOrder ==
    (mode \in Modes /\ InvalidStartupConfiguration) => AbortsAtStartup

\* the process has left because the level set of a configuration that
\* passed every other check is empty
C12_Witness ==
    /\ mode \in Modes
    /\ pc = "exited"
    /\ ParametersValid(API_KEY, SECRET_KEY, TARGET_SYMBOL, USDT_AMOUNT_STR)
    /\ SizingOk(Budget, upper_p, lower_p, num_g)
    /\ EmptyLevelSet
    /\ exit_code = Some(1)

\* C13: the loop never runs with a plan of fewer than 2 distinct levels.
C13_LoopNeedsTwoLevels ==
    (mode \in Modes /\ RUNNING) => Cardinality(PlanLevels) >= 2

\* C14: in both spacing modes a start with N < 1, U <= L or L <= 0 never
\* reaches the loop and submits no order.
C14_DegenerateGridIsFatal ==
    (mode \in Modes /\ (num_g < 1 \/ upper_p <= lower_p \/ lower_p <= 0))
        => AbortsAtStartup

\* the arithmetic grid has left at the notional check: its lower bound is
\* not positive, and nothing else is wrong
C14_Witness ==
    /\ mode = "normal"
    /\ pc = "exited"
    /\ lower_p <= 0 /\ upper_p > lower_p /\ num_g >= 1
    /\ ParametersValid(API_KEY, SECRET_KEY, TARGET_SYMBOL, USDT_AMOUNT_STR)
    /\ SizingOk_NoNotional(Budget, upper_p, lower_p, num_g)
    /\ ~InvalidGridParameters(mode, upper_p, lower_p, num_g)

\* q is the budget-derived quantity rounded down to the quantity step:
\* q * cost <= budget < (q + step) * cost
IsRoundedDownGridQuantity(q) ==
    /\ q % QUANTITY_PRECISION = 0
    /\ DecCmp(TwiceCostOf(q), DecMul(DecOfInt(2), USDT_AMOUNT)) <= 0
    /\ DecCmp(DecMul(DecOfInt(2), USDT_AMOUNT), TwiceCostOf(q + QUANTITY_PRECISION)) < 0

IsRoundedDownVolumeQuantity(q) ==
    /\ q % QUANTITY_PRECISION = 0
    /\ DecCmp(Notional(q, Val(current_price)), USDT_AMOUNT) <= 0
    /\ DecCmp(USDT_AMOUNT, Notional(q + QUANTITY_PRECISION, Val(current_price))) < 0

\* C15: no strategy submits an order with a quantity <= 0: the quantity of
\* every order is the budget-derived quantity rounded down to the quantity
\* step, and a budget whose quantity rounds to 0 ends the start instead.
C15_NoZeroQuantityOrder ==
    /\ \A o \in SubmittedOrders \cup BagToSet(book) :
           o.qty > 0 /\ o.qty = ORDER_QTY_PER_GRID
    /\ (mode \in Modes /\ pc \notin {"validate", "sizing", "exited"})
           => ORDER_QTY_PER_GRID > 0 /\ IsRoundedDownGridQuantity(ORDER_QTY_PER_GRID)
    /\ (mode \in Modes /\ pc # "validate" /\ exit_code = None
          /\ SizingDefined /\ QuantityRoundsToZero)
           => pc = "sizing"
    /\ (mode = "volume" /\ pc \in VolumeLoop)
           => ORDER_QTY_PER_GRID > 0 /\ IsRoundedDownVolumeQuantity(ORDER_QTY_PER_GRID)
    /\ (mode = "volume" /\ pc \notin {"validate", "volume_price"} /\ exit_code = None
          /\ DecCmp(USDT_AMOUNT, Notional(QUANTITY_PRECISION, Val(current_price))) < 0)
           => pc = "volume_sizing"

\* the geometric grid has submitted an order whose quantity is less than
\* the budget buys
C15_Witness ==
    /\ mode = "log"
    /\ submitted # <<>>
    /\ DecCmp(TwiceCostOf(ORDER_QTY_PER_GRID), DecMul(DecOfInt(2), USDT_AMOUNT)) < 0

\* C16: while the grid loop is RUNNING the plan quantity times the lowest
\* level of the plan is at least the minimum notional, and so is the
\* notional of every limit order submitted; a quantity whose notional at
\* the lower bound is below the minimum ends the start.
C16_NotionalAtLowestLevel ==
    /\ (mode \in Modes /\ RUNNING)
           => \A l \in PlanLevels : MeetsMinimum(ORDER_QTY_PER_GRID, l)
    /\ mode \in Modes => \A o \in SubmittedOrders : MeetsMinimum(o.qty, o.price)
    /\ (mode \in Modes /\ SizingDefined /\ DecCmp(Budget, DecZero) > 0
          /\ NotionalBelowMinimum)
           => AbortsAtStartup

\* ------------------------------------------ claims about the signed client
SignedEvents == { i \in 1..Len(wire) : wire[i].req = "signed" }
TimeEvents == { i \in 1..Len(wire) : wire[i].req = "time" }

\* the call has ended, by returning or by raising
CallEnded == call # None /\ result # None

\* the requests of the call that is running or has just ended
OwnEvents == { i \in 1..Len(wire) : wire[i].n = Val(call).n }
OwnSignedEvents == OwnEvents \cap SignedEvents

\* the time endpoint gave no time: no answer, an error status, or a body
\* without a number under 'serverTime'
NoTimeFetched(answer) == answer.kind # "json" \/ IntOf(answer.serverTime) = None

\* C21: every signed request comes right after a fetch of the server time
\* made by the same call, and carries the fetched value as its timestamp;
\* a call whose fetch fails sends no signed request and returns None.
C21_TimestampIsOwnServerTime ==
    /\ \A i \in SignedEvents :
         /\ i - 1 \in TimeEvents
         /\ wire[i - 1].n = wire[i].n
         /\ ~NoTimeFetched(wire[i - 1].answer)
         /\ wire[i].timestamp = Val(IntOf(wire[i - 1].answer.serverTime))
    /\ \A i \in TimeEvents :
         NoTimeFetched(wire[i].answer) =>
             /\ \A j \in SignedEvents : wire[j].n # wire[i].n
             /\ (CallEnded /\ wire[i].n = Val(call).n /\ Val(call).fn = "make_signed_request")
                    => result = Some(Returned(PyNone))

\* the request of the call was answered with a 2xx status and a JSON body
AnsweredOk ==
    \E i \in OwnSignedEvents :
        /\ wire[i].answer.kind = "response"
        /\ wire[i].answer.status = 200
        /\ wire[i].answer.body # NotJson
        /\ Val(result).value = wire[i].answer.body

\* C22: make_signed_request raises nothing and returns None for a transport
\* error, a response that is not 2xx, a malformed time or JSON response, an
\* unsupported method or a missing credential; it returns the parsed
\* response only for a 2xx response.
C22_SignedRequestReturnsNoneOnFailure ==
    (CallEnded /\ Val(call).fn = "make_signed_request") =>
        /\ Val(result).raised = None
        /\ Val(result).value = PyNone \/ AnsweredOk

\* C23: get_open_orders always returns a list, the exchange's list on
\* success and the empty list otherwise, and raises nothing.
C23_OpenOrdersIsAlwaysAList ==
    (CallEnded /\ Val(call).fn = "get_open_orders") =>
        /\ Val(result).raised = None
        /\ Val(result).value.t = "list"
        /\ Val(result).value = PyList(0) \/ AnsweredOk

\* the price is too large for a result of DecimalPrec digits
TooLargeToFormat(price) ==
    DecCmp(price, Dec(FALSE, <<1>>, DecimalPrec - PriceDecimals)) >= 0

\* C24: a limit order is sent with its price rounded down to the tick and
\* its quantity rounded down to the lot step, neither greater than asked
\* for, as a LIMIT order good till cancelled; when the formatting fails no
\* request is sent.
C24_LimitOrderIsRoundedDown ==
    (call # None /\ Val(call).fn = "place_limit_order") =>
        /\ \A i \in OwnSignedEvents :
             /\ wire[i].params # None
             /\ Val(wire[i].params).type = "LIMIT"
             /\ Val(wire[i].params).timeInForce = "GTC"
             /\ Val(wire[i].params).side = Val(call).side
             /\ Val(wire[i].params).price % PRICE_PRECISION = 0
             /\ DecCmp(DecOfRaw(Val(wire[i].params).price), Val(call).price) <= 0
             /\ DecCmp(Val(call).price,
                       DecOfRaw(Val(wire[i].params).price + PRICE_PRECISION)) < 0
             /\ Val(wire[i].params).quantity % QUANTITY_PRECISION = 0
             /\ DecCmp(DecOfInt(Val(wire[i].params).quantity), Val(call).quantity) <= 0
             /\ DecCmp(Val(call).quantity,
                       DecOfInt(Val(wire[i].params).quantity + QUANTITY_PRECISION)) < 0
        /\ TooLargeToFormat(Val(call).price) =>
               /\ OwnEvents = {}
               /\ pc = "returned" => result = Some(Returned(PyNone))

\* an order was sent for a price off the tick and a quantity off the lot step
C24_Witness ==
    /\ call # None /\ Val(call).fn = "place_limit_order"
    /\ Val(call).price = DecOfRaw(25)
    /\ Val(call).quantity = Dec(FALSE, <<25>>, -1)
    /\ \E i \in OwnSignedEvents :
           Val(wire[i].params).price = 20 /\ Val(wire[i].params).quantity = 2

\* the answer to the cancel-all request of the call is a record with
\* code 200 or an empty list
CancelAnswerIsSuccess ==
    \E i \in OwnSignedEvents :
        /\ wire[i].answer.kind = "response"
        /\ \/ wire[i].answer.body = PyDict(Some(200))
           \/ wire[i].answer.body = PyList(0)

CancelReportedSuccess == result = Some(Returned(PyBool(TRUE)))

\* C25 as stated: cancel-all reports success exactly for a record with code
\* 200 or an empty list, and the cancellation script exits with status 0
\* exactly when cancel-all reported success.
C25_CancelAllSuccess ==
    /\ (CallEnded /\ Val(call).fn \in {"cancel_all_open_orders", "__main__"})
           => (CancelReportedSuccess <=> CancelAnswerIsSuccess)
    /\ (mode = "cancel" /\ pc = "exited")
           => (exit_code = Some(0) <=> CancelReportedSuccess)

\* C25, amended: the same, for the script run with its three arguments; run
\* without arguments it calls nothing and exits with status 0.
C25_CancelAllSuccessWithArguments ==
    /\ (CallEnded /\ Val(call).fn \in {"cancel_all_open_orders", "__main__"})
           => (CancelReportedSuccess <=> CancelAnswerIsSuccess)
    /\ (mode = "cancel" /\ pc = "exited" /\ Val(call).method # "NONE")
           => (exit_code = Some(0) <=> CancelReportedSuccess)
    /\ (mode = "cancel" /\ pc = "exited" /\ Val(call).method = "NONE")
           => (exit_code = Some(0) /\ wire = <<>> /\ result = None)

\* the script has exited with status 0 after an empty list was the answer
C25_Witness ==
    /\ mode = "cancel" /\ pc = "exited" /\ exit_code = Some(0)
    /\ \E i \in SignedEvents : wire[i].answer.body = PyList(0)

\* -------------------------------------- claims about the iteration count
\* VAULT_ITERATIONS spells an integer of at least 1, which is the target
ValidIterationCount ==
    /\ mode = "volume"
    /\ ITERATIONS # None
    /\ ITERATIONS_STR # None
    /\ ITERATIONS = ParseInt(Val(ITERATIONS_STR))

\* C28: with a valid iteration count n the volume strategy runs exactly n
\* cycles, whatever the outcome of each cycle's orders, and then ends; with
\* no count it never ends by itself.
C28_RunsExactlyNCycles ==
    /\ ValidIterationCount =>
           /\ current_cycle <= Val(ITERATIONS)
           /\ pc = "finished" => current_cycle = Val(ITERATIONS)
    /\ (mode = "volume" /\ ITERATIONS = None) => pc # "finished"

\* -------------------------------------- claims about the volume cycle
\* the orders a step submits
NewlySubmitted ==
    { submitted'[i].order : i \in (Len(submitted) + 1)..Len(submitted') }

\* the positions of the submissions of one side in the cycle's record
CycleOrders(side) == {i \in 1..Len(submitted) : submitted[i].order.side = side}

\* the poll of the cycle's BUY read FILLED in its last answer
SeenFilled == polled # <<>> /\ polled[Len(polled)] = Some("FILLED")

\* C33: in the volume strategy a market SELL is submitted in a cycle only
\* after the cycle's market BUY was submitted and accepted and its poll read
\* the status FILLED within the poll attempts; a cycle whose BUY was refused
\* or not seen FILLED submits no SELL.
C33_SellOnlyAfterFilledBuy ==
    /\ [][(mode = "volume" /\ NewlySubmitted # {}
             /\ \E o \in NewlySubmitted : o.side = "SELL")
              => /\ Len(submitted) = 1
                 /\ submitted[1].order.side = "BUY"
                 /\ submitted[1].ok
                 /\ SeenFilled
                 /\ Len(polled) <= MaxPollAttempts
                 /\ current_cycle' = current_cycle]_vars
    /\ []((mode = "volume" /\ CycleOrders("SELL") # {})
              => /\ buy_filled /\ SeenFilled
                 /\ submitted[1].order.side = "BUY" /\ submitted[1].ok)

\* a SELL was submitted in the second cycle, after a first cycle whose BUY
\* was accepted and not seen FILLED, and a poll that read NEW before FILLED
C33_Witness ==
    /\ mode = "volume"
    /\ current_cycle = 2
    /\ totals.buys = 2 /\ totals.filled = 1
    /\ polled = <<Some("NEW"), Some("FILLED")>>
    /\ CycleOrders("SELL") # {}

\* C34: at every point of a run of the volume strategy the cycle has
\* submitted at most one market BUY and at most one market SELL, and the
\* SELLs submitted so far are no more than the BUYs seen FILLED so far.
C34_NeverSellsMoreThanBought ==
    mode = "volume"
        => /\ Cardinality(CycleOrders("BUY")) <= 1
           /\ Cardinality(CycleOrders("SELL")) <= 1
           /\ totals.sells <= totals.filled
           /\ totals.filled <= totals.buys
           /\ totals.buys <= current_cycle

\* three cycles: one BUY refused, one filled and sold, one filled whose SELL
\* is yet to come
C34_Witness ==
    /\ mode = "volume"
    /\ pc = "volume_sell"
    /\ current_cycle = 3
    /\ totals = [buys |-> 3, filled |-> 2, sells |-> 1]

\* --------------------------------------- claims about the plan in the loop
\* C30: once the loop is RUNNING no step changes the level set or the
\* quantity per level, and every order a step submits has a level of the
\* plan as its price and the plan's quantity.
C30_PlanIsNeverModified ==
    [][(mode \in Modes /\ RUNNING) =>
           /\ grid_levels' = grid_levels
           /\ ORDER_QTY_PER_GRID' = ORDER_QTY_PER_GRID
           /\ \A o \in NewlySubmitted :
                  o.price \in PlanLevels /\ o.qty = ORDER_QTY_PER_GRID]_vars

\* the loop, entered after startup with a plan of three levels or more, has
\* submitted a BUY and a SELL
C30_Witness ==
    /\ mode \in Modes /\ RUNNING
    /\ Len(grid_levels) >= 3
    /\ \E i, j \in 1..Len(submitted) :
           /\ submitted[i].order.side = "BUY" /\ submitted[j].order.side = "SELL"
           /\ submitted[i].order.price \in PlanLevels
           /\ submitted[j].order.price \in PlanLevels

\* ------------------------------------------------ claims about one tick
RECURSIVE PlannedOrders(_, _, _, _)
\* the orders the for loop of strategy m submits from plan position i on,
\* for a price and a snapshot
PlannedOrders(m, i, price, open) ==
    IF i > Len(grid_levels) THEN <<>>
    ELSE LET lq == QuantizeHalfEven(grid_levels[i])
         IN  (IF GapSide(m, lq, price, open) = "NONE" THEN <<>>
              ELSE <<place_limit_order(GapSide(m, lq, price, open), ORDER_QTY_PER_GRID, lq)>>)
                 \o PlannedOrders(m, i + 1, price, open)

SubmittedSeq == [i \in 1..Len(submitted) |-> submitted[i].order]

AcceptedCount == Cardinality({i \in 1..Len(submitted) : submitted[i].ok})

\* the plan position the for loop goes on from
NextLevel == IF pc = "pause" THEN idx + 1 ELSE idx

InForLoop == pc \in {"levels", "pause"}

\* C31: the orders a tick submits are a function of the plan, the price the
\* tick fetched and the snapshot the tick took: at every point of the for
\* loop, what the tick has submitted followed by what the rest of the plan
\* owes for that price and snapshot is what the whole plan owes for them,
\* whatever the outcomes of the submissions and whatever earlier ticks saw or
\* placed.  The snapshot is built from the tick's own open-orders response
\* alone, and neither it nor the price changes while the tick places orders.
C31_TickDependsOnItsOwnInputs ==
    /\ [](InForLoop =>
            SubmittedSeq \o PlannedOrders(mode, NextLevel, Val(current_price), open_order_prices)
                = PlannedOrders(mode, 1, Val(current_price), open_order_prices))
    /\ [][(pc = "fetch_orders" /\ pc' = "levels") =>
              open_order_prices' \in {ParseOpenOrders(mode, OpenOrdersList(BagToSet(book))),
                                      NoOrders}]_vars
    /\ [][InForLoop =>
              /\ open_order_prices' = open_order_prices
              /\ current_price' = current_price]_vars

\* a later tick has submitted orders, one of them refused, after earlier
\* ticks placed orders that the exchange has since removed
C31_Witness ==
    /\ pc = "levels" /\ idx > Len(grid_levels)
    /\ Len(submitted) >= 2
    /\ \E i \in 1..Len(submitted) : ~submitted[i].ok
    /\ order_count > AcceptedCount
    /\ BagCardinality(book) < order_count

\* C32: a tick of the arithmetic grid and a tick of the geometric grid that
\* are given the same plan, price, open-orders list and submission outcomes
\* submit the same orders and count the same placements: a tick that fetched
\* a price goes through the levels, and what it submitted and counted is what
\* the for loop of either strategy yields from the list.
C32_BothGridsTickAlike ==
    (pc = "tick_sleep" /\ current_price # None)
        => /\ tick_state = "complete"
           /\ \A m \in Modes :
                  SubmittedSeq = PlannedOrders(m, 1, Val(current_price),
                                               ParseOpenOrders(m, open_orders_list))
           /\ placed_orders_this_cycle = AcceptedCount

\* ------------------------------------------ claims about the control plane
\* C26: at most one strategy process launched by the control plane is alive
\* for a wallet at any time.
C26_AtMostOneLiveProcess ==
    \A w \in Wallets : Cardinality({p \in AliveProcesses : processes[p].wallet = w}) <= 1

\* the responses of stop_strategy and withdraw that are being returned
StopResponses ==
    { Val(responses[t]) :
          t \in { u \in Threads : /\ responses[u] # None
                                  /\ Val(responses[u]).op \in {"stop_strategy", "withdraw"} } }

\* the signal a step sends to a process, if it sends one
SignalSent(pid) ==
    IF pid <= Len(processes) /\ Len(processes'[pid].signals) > Len(processes[pid].signals)
    THEN processes'[pid].signals[Len(processes'[pid].signals)]
    ELSE "none"

SignalsOf(pid) == { processes[pid].signals[i] : i \in 1..Len(processes[pid].signals) }

\* the handler that takes the step is a stop of the process that has sent
\* SIGTERM and has waited for the process to go
AwaitsGracefulExit(pid) ==
    \E t \in Threads :
        /\ threads'[t] # threads[t]
        /\ threads[t].pid = pid
        /\ threads[t].op \in {"stop_strategy", "withdraw"}
        /\ threads[t].pc = "join"
        /\ "SIGTERM" \in SignalsOf(pid)

\* C27: a stop sends SIGTERM to a live process first and SIGKILL only
\* afterwards and only to a process still alive; a stop or withdraw whose
\* process is still alive at the end reports failed_unkillable with an error
\* status, and one that reports success has a process that is gone.
C27_GracefulThenForced ==
    /\ [][\A pid \in 1..Len(processes') :
             /\ SignalSent(pid) = "SIGTERM" => is_alive(pid)
             /\ SignalSent(pid) = "SIGKILL" => is_alive(pid) /\ AwaitsGracefulExit(pid)]_vars
    /\ [](\A r \in StopResponses :
             /\ r.code = 200 =>
                    /\ r.pid > 0 /\ ~is_alive(r.pid)
                    /\ r.termination_status \in {"success", "already_stopped", "already_exited"}
             /\ (r.pid > 0 /\ is_alive(r.pid)) =>
                    /\ r.termination_status = "failed_unkillable"
                    /\ r.code \in {400, 500}
                    /\ {"SIGTERM", "SIGKILL"} \subseteq SignalsOf(r.pid))

\* a stop has sent SIGTERM and then SIGKILL to a process that is still
\* alive, and answers with status 500
C27_Witness ==
    \E r \in StopResponses :
        /\ r.op = "stop_strategy"
        /\ r.code = 500
        /\ r.termination_status = "failed_unkillable"
        /\ is_alive(r.pid)
        /\ processes[r.pid].signals = <<"SIGTERM", "SIGKILL">>

\* C29: when a withdraw reports success, the process of the wallet is not
\* running and no order of the strategy is open (one process was launched,
\* so every open order is one it placed).
C29_WithdrawLeavesNothing ==
    \A r \in StopResponses :
        (r.op = "withdraw" /\ r.code = 200 /\ Len(processes) = 1) =>
            ~is_alive(r.pid) /\ book = EmptyBag

\* the termination statuses of a process that is confirmed terminated
ConfirmedTerminated == {"success", "already_stopped", "already_exited"}

\* C35: a stop or a withdraw reports success exactly when the process is
\* confirmed terminated (terminated now, already stopped or already exited)
\* and, for a withdraw, the cancellation script succeeded; a stop without
\* cancellation succeeds exactly when the termination is confirmed.
C35_SuccessIffTerminatedAndCancelled ==
    \A r \in StopResponses :
        r.code = 200 <=>
            /\ r.termination_status \in ConfirmedTerminated
            /\ r.op = "withdraw" => r.cancel_status = "success"

\* a stop that succeeds without a cancellation, next to a withdraw whose
\* process is terminated and whose cancellation failed, reported as a failure
C35_Witness ==
    \E r, q \in StopResponses :
        /\ r.op = "stop_strategy" /\ r.code = 200
        /\ r.cancel_status = "not_attempted"
        /\ q.op = "withdraw" /\ q.code # 200
        /\ q.termination_status \in ConfirmedTerminated
        /\ q.cancel_status = "failed_timeout"

\* the entry of a wallet in a tracking table, if it has one
EntryOf(tracking, w) == IF w \in DOMAIN tracking THEN Some(tracking[w]) ELSE None

\* the step is one of the handler of a stop or a withdraw in thread t
StopStep(t) ==
    /\ threads[t].op \in {"stop_strategy", "withdraw"}
    /\ threads[t].pc # "return"
    /\ threads'[t] # threads[t]

\* C36: when stop_strategy_process has run for a tracked wallet, the wallet
\* is not in the tracking table, whatever the outcomes of the cancellation
\* and of the termination, and no step of it changes the entry of another
\* wallet; for an untracked wallet it reports failure and changes neither
\* the table nor a process (no signal) nor the orders (no cancellation).
C36_StopUntracksOnlyItsWallet ==
    [][\A t \in Threads :
         StopStep(t) =>
             /\ \A w \in Wallets \ {threads[t].wallet} :
                    EntryOf(running_strategies', w) = EntryOf(running_strategies, w)
             /\ (threads[t].pc # "begin" /\ responses'[t] # None) =>
                    threads[t].wallet \notin DOMAIN running_strategies'
             /\ (threads[t].pc = "begin"
                     /\ threads[t].wallet \notin DOMAIN running_strategies) =>
                    /\ responses'[t] = Some(Response(threads[t].op, 404, 0, "na", "na"))
                    /\ running_strategies' = running_strategies
                    /\ processes' = processes
                    /\ book' = book]_vars

\* a stop has answered for a process it could not kill: its wallet is out
\* of the table and the other wallet is still tracked
C36_Witness ==
    \E r \in StopResponses :
        /\ r.termination_status = "failed_unkillable"
        /\ is_alive(r.pid)
        /\ processes[r.pid].wallet \notin DOMAIN running_strategies
        /\ \E w \in Wallets \ {processes[r.pid].wallet} :
               /\ w \in DOMAIN running_strategies
               /\ is_alive(running_strategies[w])

\* the wallet is tracked and its process is alive
TrackedAlive(w) ==
    w \in DOMAIN running_strategies /\ is_alive(running_strategies[w])

\* thread t answers a status query of one wallet, or of all
AnswersStatus(t) ==
    threads[t].op = "status" /\ threads[t].pc = "begin" /\ responses'[t] # None
AnswersAllStatuses(t) ==
    threads[t].op = "status_all" /\ threads[t].pc = "begin" /\ responses'[t] # None

\* C37: a status query answers running exactly for a wallet that is tracked
\* and whose process is alive; for a tracked wallet whose process has died
\* it answers stopped and removes the entry; an entry appears only when a
\* start is accepted, and a process that has died does not come back, so
\* later queries answer stopped until then.
C37_StatusTellsTrackedAndAlive ==
    /\ [][\A t \in Threads :
             /\ AnswersStatus(t) =>
                    /\ Val(responses'[t]).termination_status \in {"running", "stopped"}
                    /\ Val(responses'[t]).termination_status = "running"
                           <=> TrackedAlive(threads[t].wallet)
                    /\ threads[t].wallet \in DeadTracked =>
                           threads[t].wallet \notin DOMAIN running_strategies'
             /\ AnswersAllStatuses(t) =>
                    /\ DOMAIN running_strategies \subseteq DOMAIN Val(responses'[t]).statuses
                    /\ \A w \in DOMAIN Val(responses'[t]).statuses :
                           Val(responses'[t]).statuses[w] = "running" <=> TrackedAlive(w)
                    /\ DeadTracked \cap DOMAIN running_strategies' = {}]_vars
    /\ [][\A w \in DOMAIN running_strategies' \ DOMAIN running_strategies :
             \E t \in Threads :
                 /\ threads[t].op = "start_strategy" /\ threads[t].wallet = w
                 /\ responses'[t] = Some(Response("start_strategy", 202,
                                                   running_strategies'[w], "na", "na"))]_vars
    /\ [][\A pid \in 1..Len(processes) : ~is_alive(pid) => processes'[pid].state # "alive"]_vars

\* a query has answered stopped for a wallet whose process has exited
\* without a signal and whose entry is gone, while the other wallet is
\* reported running by a query for all wallets
C37_Witness ==
    \E t, u \in Threads :
        /\ responses[t] = Some(Response("status", 200, 0, "na", "stopped"))
        /\ WalletOf(t) \notin DOMAIN running_strategies
        /\ \E pid \in 1..Len(processes) :
               processes[pid].wallet = WalletOf(t) /\ ~is_alive(pid)
        /\ responses[u] # None
        /\ Val(responses[u]).op = "status_all"
        /\ WalletOf(u) \in DOMAIN Val(responses[u]).statuses
        /\ Val(responses[u]).statuses[WalletOf(u)] = "running"

\* the step is one of the handler of a start in thread t
StartStep(t) ==
    /\ threads[t].op = "start_strategy"
    /\ threads[t].pc # "return"
    /\ threads'[t] # threads[t]

\* the status with which the step answers, 0 if it does not answer
AnswerCode(t) ==
    IF responses'[t] # None /\ responses[t] = None THEN Val(responses'[t]).code ELSE 0

\* C38: a start that is rejected with 400, 404 or 409 has launched no
\* process and adds no tracking entry, and 409 is the answer for a wallet
\* whose process is alive; a start that is accepted with 202 has launched
\* exactly one process, and the wallet's tracking entry refers to it.
C38_StartLaunchesOnlyWhenAccepted ==
    /\ [][\A t \in Threads :
             StartStep(t) =>
                 /\ AnswerCode(t) \in {400, 404, 409} =>
                        /\ threads[t].pid = 0
                        /\ processes' = processes
                        /\ DOMAIN running_strategies' \subseteq DOMAIN running_strategies
                        /\ \A w \in DOMAIN running_strategies' :
                               running_strategies'[w] = running_strategies[w]
                 /\ AnswerCode(t) = 409 => TrackedAlive(threads[t].wallet)
                 /\ AnswerCode(t) = 202 =>
                        /\ threads[t].pid \in 1..Len(processes)
                        /\ processes[threads[t].pid].wallet = threads[t].wallet
                        /\ processes' = processes
                        /\ Val(responses'[t]).pid = threads[t].pid
                        /\ threads[t].wallet \in DOMAIN running_strategies'
                        /\ running_strategies'[threads[t].wallet] = threads[t].pid
                 /\ Len(processes') > Len(processes) =>
                        /\ threads[t].pid = 0
                        /\ Len(processes') = Len(processes) + 1
                        /\ threads'[t].pid = Len(processes')]_vars
    /\ [][Len(processes') > Len(processes) => \E t \in Threads : StartStep(t)]_vars

\* a start has been accepted and its process is the one tracked for the
\* wallet, while a second start of the wallet is rejected with 409
C38_Witness ==
    \E t, u \in Threads :
        /\ responses[t] # None /\ responses[u] # None
        /\ Val(responses[t]).op = "start_strategy" /\ Val(responses[t]).code = 202
        /\ "0xW" \in DOMAIN running_strategies
        /\ running_strategies["0xW"] = Val(responses[t]).pid
        /\ Len(processes) = 1
        /\ responses[u] = Some(Response("start_strategy", 409, 0, "na", "na"))

\* ------------------------------------------- claims about the registered keys
\* C39: when a register of a wallet answers success, the file holds the
\* keys it supplied for the wallet, and every other wallet in the file has
\* the keys it had before.
C39_RegisterKeepsOtherWallets ==
    [][\A t \in Threads :
         (registrations[t].pc = "save" /\ registrations'[t].code = 201) =>
             /\ registrations[t].wallet_address \in DOMAIN USER_DATA_FILE'
             /\ USER_DATA_FILE'[registrations[t].wallet_address] = registrations[t].api_key
             /\ \A w \in DOMAIN USER_DATA_FILE \ {registrations[t].wallet_address} :
                    /\ w \in DOMAIN USER_DATA_FILE'
                    /\ USER_DATA_FILE'[w] = USER_DATA_FILE[w]]_vars

\* ------------------------------------------------ claims about the plan
ValidGrid == upper_p > lower_p /\ lower_p > 0 /\ num_g >= 1
OnTickGrid == upper_p % PRICE_PRECISION = 0 /\ lower_p % PRICE_PRECISION = 0
Calculated == pc = "check_levels"

\* true when the sequence of raw prices is strictly descending
Descending(seq) == \A j \in 1..(Len(seq) - 1) : seq[j] > seq[j + 1]

\* num_grids * level = num_grids * L + i * (U - L), compared without rounding
IsExactArithmeticLevel(lvl, i) ==
    DecCmp(Dec(lvl.neg, BMulSmall(lvl.coef, num_g), lvl.exp),
           DecOfRaw(num_g * lower_p + i * (upper_p - lower_p))) = 0

\* C17: for U > L > 0 and N >= 1 the arithmetic calculation computes exactly
\* the N + 1 values L + i * (U - L) / N and returns them sorted descending
\* after deduplication; U = 0.7, L = 0.6, N = 10 gives the 11 levels
\* 0.70, 0.69, ..., 0.60.
C17_ExactArithmeticLevels ==
    (mode = "normal" /\ ValidGrid /\ pc \in {"format", "check_levels"}) =>
        /\ Len(lvls) = num_g + 1
        /\ \A j \in 1..Len(lvls) : IsExactArithmeticLevel(lvls[j], j - 1)
        /\ pc = "check_levels" =>
             /\ Descending(grid_levels)
             /\ (upper_p = 70000 /\ lower_p = 60000 /\ num_g = 10) =>
                    grid_levels = [j \in 1..11 |-> 70000 - 1000 * (j - 1)]

AbsDec(a) == Dec(FALSE, a.coef, a.exp)
AbsRaw(p) == IF p < 0 THEN -p ELSE p

\* g is lvl with the digits below the tick cut off: for a price, which is
\* positive, the tick at or below it
RoundsDownTo(lvl, g) ==
    /\ g % PRICE_PRECISION = 0
    /\ g < 0 => lvl.neg
    /\ g > 0 => ~lvl.neg
    /\ DecCmp(DecOfRaw(AbsRaw(g)), AbsDec(lvl)) <= 0
    /\ DecCmp(AbsDec(lvl), DecOfRaw(AbsRaw(g) + PRICE_PRECISION)) < 0

\* C18: in both modes the returned plan is strictly descending (so no two
\* levels are equal), every level is a multiple of the tick that one of the
\* unquantized values rounds down to, never up, and every unquantized value
\* has its tick in the plan exactly once.
C18_PlanIsRoundedDownAndDescending ==
    pc = "check_levels" =>
        /\ Descending(grid_levels)
        /\ \A i \in 1..Len(grid_levels) :
             \E j \in 1..Len(lvls) : RoundsDownTo(lvls[j], grid_levels[i])
        /\ grid_levels # <<>> =>
             \A j \in 1..Len(lvls) :
                \E i \in 1..Len(grid_levels) : RoundsDownTo(lvls[j], grid_levels[i])

\* two unquantized values fall on one tick, one of them off the tick grid
C18_Witness ==
    /\ pc = "check_levels"
    /\ Len(grid_levels) >= 2
    /\ \E j, k \in 1..Len(lvls) :
         /\ j # k
         /\ \E i \in 1..Len(grid_levels) :
              /\ RoundsDownTo(lvls[j], grid_levels[i])
              /\ RoundsDownTo(lvls[k], grid_levels[i])
              /\ DecCmp(lvls[j], DecOfRaw(grid_levels[i])) > 0

\* C19: for valid U, L on the tick grid the plan spans the range: its
\* highest level is U and its lowest level is L.
C19_PlanSpansTheRange ==
    (pc = "check_levels" /\ ValidGrid /\ OnTickGrid) =>
        /\ grid_levels # <<>>
        /\ grid_levels[1] = upper_p
        /\ grid_levels[Len(grid_levels)] = lower_p

\* the scenario of the geometric grid: U = 0.7, L = 0.6, N = 5
GeometricScenario == mode = "log" /\ upper_p = 70000 /\ lower_p = 60000 /\ num_g = 5
ScenarioLevels == <<70000, 67870, 65800, 63800, 61870, 60000>>

\* rt, a Decimal of 28 digits, is the 28-digit value next to (7/6)^(1/5):
\* 6 * (rt - ulp)^5 < 7 < 6 * (rt + ulp)^5
IsFifthRootOfSevenSixths(rt) ==
    LET seven == BShift(<<7>>, 5 * (-rt.exp))
        below == BMulSmall(BPow(BSub(rt.coef, <<1>>), 5), 6)
        above == BMulSmall(BPow(BAdd(rt.coef, <<1>>), 5), 6)
    IN  /\ BDigits(rt.coef) = DecimalPrec
        /\ BCmp(below, seven) < 0
        /\ BCmp(seven, above) < 0

\* C20: for U = 0.7, L = 0.6, N = 5 the ratio is (7/6)^(1/5), 1.031 to three
\* decimals (1.03131...),
\* each level is the previous one times the ratio, and the plan has exactly
\* 6 distinct levels, each within one tick of 0.7000, 0.6787, 0.6580,
\* 0.6380, 0.6187 and 0.6.
C20_GeometricScenario ==
    (GeometricScenario /\ pc \in {"format", "check_levels"}) =>
        /\ IsFifthRootOfSevenSixths(ratio)
        /\ DecTruncate(ratio, 3) = 1031
        /\ Len(lvls) = 6
        /\ lvls[1] = DecOfRaw(lower_p)
        /\ \A j \in 1..5 : lvls[j + 1] = DecMul(lvls[j], ratio)
        /\ pc = "check_levels" =>
             /\ Len(grid_levels) = 6
             /\ Descending(grid_levels)
             /\ \A i \in 1..6 :
                  AbsRaw(grid_levels[i] - ScenarioLevels[i]) <= PRICE_PRECISION

\* the plan of the scenario, two of its levels a tick above the rounded ones
C20_Witness ==
    /\ GeometricScenario
    /\ pc = "check_levels"
    /\ grid_levels = <<70000, 67870, 65810, 63810, 61870, 60000>>

====
